---- MODULE Spec2Model ----
(***************************************************************************)
(* VIGILUM ML pipeline: bytecode decoding and feature extraction           *)
(* (vigilum_ml/features.py), sequence encoding (vigilum_ml/dataset.py,     *)
(* vigilum_ml/inference/service.py), result interpretation and the        *)
(* operations of the inference service (vigilum_ml/inference/service.py).  *)
(*                                                                         *)
(* A hex string is a sequence of one-character strings; a byte string is   *)
(* a sequence of integers 0..255, indexed from 1 (Python index i is        *)
(* element i+1).  Probabilities are fixed-point integers in thousandths.   *)
(***************************************************************************)
EXTENDS Integers, Sequences, FiniteSets, TLC

VARIABLES
    bytecode_hex,     \* the caller's argument of the running operation
    pc,               \* position of the running operation
    hex_norm,         \* extract: bytecode_hex after lower() and prefix removal
    bytecode,         \* extract: bytes.fromhex(hex_norm)
    i,                \* _parse_opcodes: cursor
    counter,          \* _parse_opcodes: Counter of mnemonics
    opcodes_list,     \* _parse_opcodes: mnemonics in order
    reads,            \* _parse_opcodes: the indices read by op = bytecode[i]
    features,         \* extract: the ContractFeatures returned, or None
    error,            \* the exception raised to the caller, or None
    max_seq_length,   \* the configured length of a dataset or a service
    sample,           \* the labelled sample (or parquet row) being encoded
    ds_item,          \* ContractDataset.__getitem__ result, or None
    stream_item,      \* StreamingContractDataset._process_row result, or None
    inf_tensor,       \* InferenceService._preprocess_bytecode result, or None
    onnx_inputs,      \* the inputs built by InferenceService._predict_onnx
    model,            \* InferenceService.model: loaded or None
    onnx_session,     \* InferenceService.onnx_session: loaded or None
    scoring_call,     \* the engine and arguments of the last scoring call
    outputs,          \* InferenceService.predict: the scoring output in hand
    result,           \* InferenceService.predict: the PredictionResult, or None
    calls,            \* number of service calls completed
    config,           \* InferenceService: use_onnx and model_path.suffix, or None
    scoring,          \* the function the loaded engine computes, tensor to output
    request,          \* the last call on the service: operation and arguments
    response,         \* what that call returned, or None
    engine_log,       \* the engine behind each predict of that call, in order
    samples,          \* create_train_val_split: the caller's list of samples
    val_ratio,        \* create_train_val_split: the ratio argument, or None
    split,            \* create_train_val_split: the (train, val) returned
    data,             \* _calculate_entropy: the bytes it is called with
    entropy,          \* _calculate_entropy: the value returned, or None
    train_config,     \* Trainer.train_config: num_epochs and save_every, or None
    val_loader,       \* Trainer.train: the val_loader argument, or None
    epoch,            \* Trainer.train: the next value of the loop variable
    train_losses,     \* Trainer.train_losses
    val_losses,       \* Trainer.val_losses
    best_val_loss,    \* Trainer.best_val_loss: Infinity or a loss
    checkpoints,      \* the checkpoints written by _save_checkpoint, in order
    files,            \* StreamingContractDataset.files
    num_workers,      \* worker_info.num_workers of the DataLoader's workers
    worker_pc,        \* position of each worker in __iter__
    worker_files,     \* the local files of each worker in __iter__
    file_reads        \* the files each worker has passed to read_parquet

vars == <<bytecode_hex, pc, hex_norm, bytecode, i, counter, opcodes_list, reads,
          features, error, max_seq_length, sample, ds_item, stream_item,
          inf_tensor, onnx_inputs, model, onnx_session, scoring_call, outputs,
          result, calls, config, scoring, request, response, engine_log,
          samples, val_ratio, split, data, entropy, train_config, val_loader,
          epoch, train_losses, val_losses, best_val_loss, checkpoints, files,
          num_workers, worker_pc, worker_files, file_reads>>

extractVars == <<hex_norm, bytecode, i, counter, opcodes_list, reads, features>>
encodeVars == <<max_seq_length, sample, ds_item, stream_item, inf_tensor,
                onnx_inputs>>
predictVars == <<model, onnx_session, scoring_call, outputs, result, calls>>
serviceVars == <<config, scoring, request, response, engine_log>>
splitVars == <<samples, val_ratio, split>>
\* the state of the tools run outside the service
entropyVars == <<data, entropy>>
trainVars == <<train_config, val_loader, epoch, train_losses, val_losses,
               best_val_loss, checkpoints>>
shardVars == <<files, num_workers, worker_pc, worker_files, file_reads>>
offlineVars == <<splitVars, entropyVars, trainVars, shardVars>>

\* an optional value is None or Some(v); an absent exception is NoError
None == <<>>
Some(v) == <<v>>
NoError == "NoError"

(***************************************************************************)
(* Bounds of the model.                                                    *)
(***************************************************************************)
\* longest byte string enumerated in full over TestBytes
MaxBytes == 4
\* longest byte string whose prefix / case / defect variants are enumerated
MaxStyledBytes == 2
\* largest configured sequence length tried by the encoders
MaxSeqLen == 4
\* number of predict calls made in a row on one service
MaxCalls == 2

(***************************************************************************)
(* Characters and strings.                                                 *)
(***************************************************************************)
HexChars == <<"0", "1", "2", "3", "4", "5", "6", "7",
              "8", "9", "a", "b", "c", "d", "e", "f">>
UpperHexChars == <<"0", "1", "2", "3", "4", "5", "6", "7",
                   "8", "9", "A", "B", "C", "D", "E", "F">>
DecChars == <<"0", "1", "2", "3", "4", "5", "6", "7", "8", "9">>

\* str.lower() on one character (the ASCII letters an input here can hold)
LowerChar(c) ==
    IF \E k \in 11..16 : UpperHexChars[k] = c
    THEN HexChars[CHOOSE k \in 11..16 : UpperHexChars[k] = c]
    ELSE IF c = "X" THEN "x" ELSE IF c = "G" THEN "g" ELSE c

\* str.lower()
Lower(s) == [k \in 1..Len(s) |-> LowerChar(s[k])]

\* s.startswith("0x") and the slice s[2:]
StartsWith0x(s) == Len(s) >= 2 /\ s[1] = "0" /\ s[2] = "x"
StripPrefix(s) == IF StartsWith0x(s) THEN SubSeq(s, 3, Len(s)) ELSE s

\* the normalisation at the head of extract: lower(), then the prefix
NormalizeNoStrip(s) == Lower(s)
Normalize(s) == StripPrefix(Lower(s))

IsSpace(c) == c \in {" ", "\t", "\n"}
IsHexDigit(c) == \E k \in 1..16 : HexChars[k] = c \/ UpperHexChars[k] = c
DigitVal(c) == (CHOOSE k \in 1..16 : HexChars[k] = c \/ UpperHexChars[k] = c) - 1

(***************************************************************************)
(* bytes.fromhex: whitespace is skipped between bytes, every byte is two   *)
(* hex digits; anything else is a ValueError.                              *)
(***************************************************************************)
RECURSIVE FromHexAt(_, _, _)
FromHexAt(s, p, acc) ==
    IF p > Len(s) THEN [ok |-> TRUE, bytes |-> acc]
    ELSE IF IsSpace(s[p]) THEN FromHexAt(s, p + 1, acc)
    ELSE IF ~IsHexDigit(s[p]) THEN [ok |-> FALSE, bytes |-> <<>>]
    ELSE IF p + 1 > Len(s) \/ ~IsHexDigit(s[p + 1]) THEN [ok |-> FALSE, bytes |-> <<>>]
    ELSE FromHexAt(s, p + 2, Append(acc, 16 * DigitVal(s[p]) + DigitVal(s[p + 1])))

FromHex(s) == FromHexAt(s, 1, <<>>)

\* decimal and hexadecimal formatting of a small number: f"{n}" and hex(n)[2:]
Dec(n) == IF n < 10 THEN DecChars[n + 1]
          ELSE DecChars[(n \div 10) + 1] \o DecChars[(n % 10) + 1]
HexStr(n) == IF n < 16 THEN HexChars[n + 1]
             ELSE HexChars[(n \div 16) + 1] \o HexChars[(n % 16) + 1]

(***************************************************************************)
(* The opcode table.                                                       *)
(***************************************************************************)
OPCODES ==
    {
       <<0, "STOP">>, <<1, "ADD">>, <<2, "MUL">>, <<3, "SUB">>,
       <<4, "DIV">>, <<5, "SDIV">>, <<6, "MOD">>, <<16, "LT">>,
       <<17, "GT">>, <<20, "EQ">>, <<21, "ISZERO">>, <<22, "AND">>,
       <<23, "OR">>, <<24, "XOR">>, <<25, "NOT">>, <<26, "BYTE">>,
       <<27, "SHL">>, <<28, "SHR">>, <<32, "SHA3">>, <<48, "ADDRESS">>,
       <<49, "BALANCE">>, <<50, "ORIGIN">>, <<51, "CALLER">>, <<52, "CALLVALUE">>,
       <<53, "CALLDATALOAD">>, <<54, "CALLDATASIZE">>, <<55, "CALLDATACOPY">>, <<56, "CODESIZE">>,
       <<57, "CODECOPY">>, <<58, "GASPRICE">>, <<59, "EXTCODESIZE">>, <<60, "EXTCODECOPY">>,
       <<61, "RETURNDATASIZE">>, <<62, "RETURNDATACOPY">>, <<63, "EXTCODEHASH">>, <<64, "BLOCKHASH">>,
       <<65, "COINBASE">>, <<66, "TIMESTAMP">>, <<67, "NUMBER">>, <<68, "DIFFICULTY">>,
       <<69, "GASLIMIT">>, <<70, "CHAINID">>, <<71, "SELFBALANCE">>, <<72, "BASEFEE">>,
       <<80, "POP">>, <<81, "MLOAD">>, <<82, "MSTORE">>, <<83, "MSTORE8">>,
       <<84, "SLOAD">>, <<85, "SSTORE">>, <<86, "JUMP">>, <<87, "JUMPI">>,
       <<88, "PC">>, <<89, "MSIZE">>, <<90, "GAS">>, <<91, "JUMPDEST">>,
       <<95, "PUSH0">>, <<160, "LOG0">>, <<161, "LOG1">>, <<162, "LOG2">>,
       <<163, "LOG3">>, <<164, "LOG4">>, <<240, "CREATE">>, <<241, "CALL">>,
       <<242, "CALLCODE">>, <<243, "RETURN">>, <<244, "DELEGATECALL">>, <<245, "CREATE2">>,
       <<250, "STATICCALL">>, <<253, "REVERT">>, <<254, "INVALID">>, <<255, "SELFDESTRUCT">>
    }

\* OPCODES.get(op, f"UNKNOWN_{hex(op)}")
OpcodesGet(op) ==
    IF \E e \in OPCODES : e[1] = op
    THEN (CHOOSE e \in OPCODES : e[1] = op)[2]
    ELSE "UNKNOWN_0x" \o HexStr(op)

(***************************************************************************)
(* FeatureExtractor._parse_opcodes, one loop iteration at a time.          *)
(***************************************************************************)
\* the loop condition  while i < len(bytecode)
LoopCondOffByOne(c, b) == c <= Len(b)
LoopCond(c, b) == c < Len(b)

IsPush(op) == 96 <= op /\ op <= 127
IsDup(op) == 128 <= op /\ op <= 143
IsSwap(op) == 144 <= op /\ op <= 159

\* push_size = op - 0x5F
PushSizeOffByOne(op) == op - 96
PushSize(op) == op - 95

\* the mnemonic chosen for op
OpName(op) ==
    IF IsPush(op) THEN "PUSH" \o Dec(PushSize(op))
    ELSE IF IsDup(op) THEN "DUP" \o Dec(op - 127)
    ELSE IF IsSwap(op) THEN "SWAP" \o Dec(op - 143)
    ELSE OpcodesGet(op)

\* the cursor after the iteration: i += push_size (PUSH only), then i += 1
AdvanceNoSkip(c, op) == c + 1
Advance(c, op) == IF IsPush(op) THEN c + PushSize(op) + 1 ELSE c + 1

\* counter[name] += 1 on a Counter
CounterInc(cnt, name) ==
    IF name \in DOMAIN cnt
    THEN [cnt EXCEPT ![name] = @ + 1]
    ELSE [k \in DOMAIN cnt \cup {name} |-> IF k = name THEN 1 ELSE cnt[k]]

EmptyCounter == [k \in {} |-> 0]

\* one iteration on the loop state [i, counter, opcodes_list]; the caller
\* has checked the loop condition and that the index is inside the bytes
ParseIter(st, b) ==
    LET op == b[st.i + 1]
        name == OpName(op)
    IN [i |-> Advance(st.i, op),
        counter |-> CounterInc(st.counter, name),
        opcodes_list |-> Append(st.opcodes_list, name)]

\* the whole loop, for callers that use extract as one step
RECURSIVE ParseAll(_, _)
ParseAll(st, b) ==
    IF LoopCond(st.i, b) THEN ParseAll(ParseIter(st, b), b) ELSE st

ParseOpcodes(b) ==
    ParseAll([i |-> 0, counter |-> EmptyCounter, opcodes_list |-> <<>>], b)

\* opcode_dist.get(name, 0)
DistGet(dist, name) == IF name \in DOMAIN dist THEN dist[name] ELSE 0

\* _count_external_calls
CountExternalCallsNoCall(dist) ==
    DistGet(dist, "DELEGATECALL") + DistGet(dist, "STATICCALL")
        + DistGet(dist, "CALLCODE")
CountExternalCalls(dist) ==
    DistGet(dist, "CALL") + DistGet(dist, "DELEGATECALL")
        + DistGet(dist, "STATICCALL") + DistGet(dist, "CALLCODE")

\* _estimate_complexity
EstimateComplexity(dist) == DistGet(dist, "JUMPI") + 1

\* Counter(data) of _calculate_entropy: the byte-value frequencies the
\* entropy is computed from
ByteCounts(b) ==
    [v \in {b[k] : k \in 1..Len(b)} |-> Cardinality({k \in 1..Len(b) : b[k] = v})]

\* floor(10^6 * log2(k)) for the odd k = 1, 3, ..., 63
Log2OfOdd ==
    <<0, 1584962, 2321928, 2807354, 3169925, 3459431, 3700439, 3906890,
      4087462, 4247927, 4392317, 4523561, 4643856, 4754887, 4857980, 4954196,
      5044394, 5129283, 5209453, 5285402, 5357552, 5426264, 5491853, 5554588,
      5614709, 5672425, 5727920, 5781359, 5832890, 5882643, 5930737, 5977279>>

RECURSIVE Log2Floor(_)
Log2Floor(k) ==
    IF k % 2 = 0 THEN 1000000 + Log2Floor(k \div 2)
    ELSE Log2OfOdd[(k + 1) \div 2]

RECURSIVE IsPowerOfTwo(_)
IsPowerOfTwo(k) == k = 1 \/ (k % 2 = 0 /\ IsPowerOfTwo(k \div 2))

\* math.log2 of a positive integer, in millionths: the interval [lo, hi] that
\* holds the real value, a single point where the value is an integer
Log2(k) ==
    [lo |-> Log2Floor(k),
     hi |-> IF IsPowerOfTwo(k) THEN Log2Floor(k) ELSE Log2Floor(k) + 1]

RECURSIVE Gcd(_, _)
Gcd(a, b) == IF b = 0 THEN a ELSE Gcd(b, a % b)

\* the mutation of Log2Prob that takes the logarithm of the count
Log2OfCount(count, length) == Log2(count)

\* prob = count / length; log2(prob).  The quotient is the same number for
\* every pair with the same reduced fraction, and log2 of a power of two is
\* exact.
Log2Prob(count, length) ==
    LET g == Gcd(count, length)
        num == Log2(count \div g)
        den == Log2(length \div g)
    IN [lo |-> num.lo - den.hi, hi |-> num.hi - den.lo]

\* prob * log2(prob), in millionths, rounded outwards
EntropyTerm(count, length) ==
    LET g == Gcd(count, length)
        l == Log2Prob(count, length)
    IN [lo |-> ((count \div g) * l.lo) \div (length \div g),
        hi |-> 0 - ((0 - (count \div g) * l.hi) \div (length \div g))]

ZeroEntropy == [lo |-> 0, hi |-> 0]

\* sum and negation of intervals, each operand evaluated once
IntervalSum(a, b) ==
    CHOOSE s \in {[lo |-> x.lo + y.lo, hi |-> x.hi + y.hi] : x \in {a}, y \in {b}} :
        TRUE
IntervalNeg(a) == CHOOSE s \in {[lo |-> 0 - x.hi, hi |-> 0 - x.lo] : x \in {a}} : TRUE

\* m equal terms added up
IntervalTimes(m, a) == CHOOSE s \in {[lo |-> m * x.lo, hi |-> m * x.hi] : x \in {a}} : TRUE

\* for count in counter.values(): if count > 0: the term prob * log2(prob);
\* the terms of the byte values whose count is in counts, added up count by
\* count (byte values with the same count have the same term)
RECURSIVE SumTerms(_, _, _)
SumTerms(cnt, counts, length) ==
    IF counts = {} THEN ZeroEntropy
    ELSE LET c == CHOOSE x \in counts : \A y \in counts : x <= y
             m == Cardinality({v \in DOMAIN cnt : cnt[v] = c})
         IN IntervalSum(IF c > 0
                        THEN IntervalTimes(m, EntropyTerm(c, length))
                        ELSE ZeroEntropy,
                        SumTerms(cnt, counts \ {c}, length))

\* _calculate_entropy(data): the entropy in millionths of a bit, as the
\* interval that holds the value the floating-point sum approximates
CalculateEntropy(b) ==
    IF b = <<>> THEN ZeroEntropy
    ELSE LET cnt == ByteCounts(b)
         IN IntervalNeg(SumTerms(cnt, {cnt[v] : v \in DOMAIN cnt}, Len(b)))

\* pattern in s, for strings as character sequences
Contains(s, pat) ==
    \E p \in 1..(Len(s) - Len(pat) + 1) : SubSeq(s, p, p + Len(pat) - 1) = pat

IsLowerHex(c) == \E k \in 1..16 : HexChars[k] = c

\* re.findall(r"63([0-9a-f]{8})", s): leftmost matches, not overlapping
RECURSIVE FindSelectors(_, _)
FindSelectors(s, p) ==
    IF p + 9 > Len(s) THEN {}
    ELSE IF s[p] = "6" /\ s[p + 1] = "3"
            /\ \A k \in (p + 2)..(p + 9) : IsLowerHex(s[k])
         THEN {<<"0", "x">> \o SubSeq(s, p + 2, p + 9)} \cup FindSelectors(s, p + 10)
         ELSE FindSelectors(s, p + 1)

\* _extract_selectors: list(set(selectors)), as a set
ExtractSelectors(s) == FindSelectors(s, 1)

MinimalProxyPattern ==
    <<"3", "6", "3", "d", "3", "d", "3", "7", "3", "d", "3", "d", "3", "d", "3", "6",
      "3", "d", "7", "3">>
ImplSlot ==
    <<"3", "6", "0", "8", "9", "4", "a", "1", "3", "b", "a", "1", "a", "3", "2", "1",
      "0", "6", "6", "7", "c", "8", "2", "8", "4", "9", "2", "d", "b", "9", "8", "d",
      "c", "a", "3", "e", "2", "0", "7", "6", "c", "c", "3", "7", "3", "5", "a", "9",
      "2", "0", "a", "3", "c", "a", "5", "0", "5", "d", "3", "8", "2", "b", "b", "c">>
AdminSlot ==
    <<"b", "5", "3", "1", "2", "7", "6", "8", "4", "a", "5", "6", "8", "b", "3", "1",
      "7", "3", "a", "e", "1", "3", "b", "9", "f", "8", "a", "6", "0", "1", "6", "e",
      "2", "4", "3", "e", "6", "3", "b", "6", "e", "8", "e", "e", "1", "1", "7", "8",
      "d", "6", "a", "7", "1", "7", "8", "5", "0", "b", "5", "d", "6", "1", "0", "3">>
OwnerSelector == <<"8", "d", "a", "5", "c", "b", "5", "b">>
PausedSelector == <<"5", "c", "9", "7", "5", "a", "b", "b">>

\* _detect_proxy_pattern
DetectProxyPattern(dist, s) ==
    IF DistGet(dist, "DELEGATECALL") > 0
    THEN Contains(s, MinimalProxyPattern)
         \/ (DistGet(dist, "DELEGATECALL") >= 1 /\ Len(s) < 1000)
    ELSE FALSE

DetectUpgradeable(s) == Contains(s, ImplSlot) \/ Contains(s, AdminSlot)
DetectOwnership(s) == Contains(s, OwnerSelector)
DetectPausable(s) == Contains(s, PausedSelector)

\* unique_opcodes = len(opcode_dist)
UniqueOpcodesFromList(dist, lst) == Len(lst)
UniqueOpcodes(dist, lst) == Cardinality(DOMAIN dist)

\* the ContractFeatures built by extract from the normalised hex string, the
\* bytes and the result of _parse_opcodes
BuildFeatures(s, b, dist, lst) ==
    [bytecode_length |-> Len(b),
     opcode_distribution |-> dist,
     unique_opcodes |-> UniqueOpcodes(dist, lst),
     jump_count |-> DistGet(dist, "JUMP") + DistGet(dist, "JUMPI"),
     call_count |-> DistGet(dist, "CALL"),
     delegatecall_count |-> DistGet(dist, "DELEGATECALL"),
     staticcall_count |-> DistGet(dist, "STATICCALL"),
     selfdestruct_present |-> DistGet(dist, "SELFDESTRUCT") > 0,
     sload_count |-> DistGet(dist, "SLOAD"),
     sstore_count |-> DistGet(dist, "SSTORE"),
     external_calls |-> CountExternalCalls(dist),
     ether_transfers |-> DistGet(dist, "CALL"),
     cyclomatic_complexity |-> EstimateComplexity(dist),
     byte_counts |-> ByteCounts(b),
     function_selectors |-> ExtractSelectors(s),
     is_proxy |-> DetectProxyPattern(dist, s),
     is_upgradeable |-> DetectUpgradeable(s),
     has_ownership |-> DetectOwnership(s),
     has_pausable |-> DetectPausable(s)]

\* the Field constraints of ContractFeatures (ge=0 on every count); the
\* record holds the byte frequencies in place of the floating-point
\* code_entropy, whose range check is therefore not evaluated here
ValidateFeatures(f) ==
    /\ f.bytecode_length >= 0
    /\ f.unique_opcodes >= 0
    /\ f.jump_count >= 0
    /\ f.call_count >= 0
    /\ f.delegatecall_count >= 0
    /\ f.staticcall_count >= 0
    /\ f.sload_count >= 0
    /\ f.sstore_count >= 0
    /\ f.external_calls >= 0
    /\ f.ether_transfers >= 0
    /\ f.cyclomatic_complexity >= 0

\* extract as one step: the features, or the error it raises
ExtractWhole(hex) ==
    LET s == Normalize(hex)
        r == FromHex(s)
        st == ParseOpcodes(r.bytes)
        f == BuildFeatures(s, r.bytes, st.counter, st.opcodes_list)
    IN IF ~r.ok THEN [raised |-> TRUE, features |-> None]
       ELSE IF ~ValidateFeatures(f) THEN [raised |-> TRUE, features |-> None]
       ELSE [raised |-> FALSE, features |-> Some(f)]

(***************************************************************************)
(* Inputs.                                                                 *)
(***************************************************************************)
\* PUSH1, PUSH2, DUP1, MSTORE, CALL, DELEGATECALL and the unassigned 0x0c
TestBytes == {96, 97, 128, 82, 241, 244, 12}
\* PUSH1 and CALL, for the prefix / case / defect variants
StyledBytes == {96, 241}

ByteSeqs(S, n) == UNION {[1..k -> S] : k \in 0..n}

\* bytes.hex() of a byte string, in lower or upper case
Render(bs, upper) ==
    LET digits == IF upper THEN UpperHexChars ELSE HexChars
    IN [k \in 1..(2 * Len(bs)) |->
           IF k % 2 = 1 THEN digits[(bs[(k + 1) \div 2] \div 16) + 1]
                        ELSE digits[(bs[k \div 2] % 16) + 1]]

Prefixes == {<<>>, <<"0", "x">>, <<"0", "X">>, <<" ">>}
Suffixes == {<<>>, <<"g">>, <<"6">>, <<" ">>, <<"0", "x">>}

PlainInputs(n) == {Render(bs, FALSE) : bs \in ByteSeqs(TestBytes, n)}
StyledInputs ==
    {pre \o Render(bs, up) \o suf :
        bs \in ByteSeqs(StyledBytes, MaxStyledBytes),
        pre \in Prefixes, up \in BOOLEAN, suf \in Suffixes}

\* the bytecodes of tests/test_dataset.py and tests/test_inference.py, a
\* truncated PUSH32, and whitespace between bytes and inside a byte
SampleInputs ==
    {<<"0", "x", "6", "0", "8", "0", "6", "0", "4", "0", "5", "2">>,
     <<"6", "0", "8", "0", "6", "0", "4", "0", "5", "2", "6", "0", "0", "4">>,
     <<"0", "x", "6", "0", "8", "0", "6", "0", "4", "0", "5", "2", "6", "0">>,
     <<"7", "f", "6", "0">>,
     <<"6", "0", " ", "8", "0">>,
     <<"6", " ", "0">>,
     <<"0", "x", "0", "x", "6", "0">>}

\* bytecodes around the byte 0x63: PUSH4 of the transfer selector, once and
\* twice; two adjacent 0x63 bytes; 0x63 as the operand of a PUSH1; the
\* digits 6 and 3 in two neighbouring bytes; 0x63 with three bytes after it
SelectorInputs ==
    {<<"6", "3", "a", "9", "0", "5", "9", "c", "b", "b">>,
     <<"6", "3", "a", "9", "0", "5", "9", "c", "b", "b",
       "6", "3", "a", "9", "0", "5", "9", "c", "b", "b">>,
     <<"6", "3", "6", "3", "a", "a", "b", "b", "c", "c", "d", "d", "e", "e">>,
     <<"6", "0", "6", "3", "a", "9", "0", "5", "9", "c", "b", "b">>,
     <<"0", "6", "3", "0", "0", "0", "0", "0", "0", "0", "0", "1">>,
     <<"6", "3", "a", "9", "0", "5", "9", "c">>}

ExtractInputs ==
    PlainInputs(MaxBytes) \cup StyledInputs \cup SampleInputs \cup SelectorInputs

(***************************************************************************)
(* FeatureExtractor.extract, with the loop of _parse_opcodes stepped.      *)
(***************************************************************************)
\* a sample with no labels and no scores
BlankSample ==
    [labels |-> <<>>, vulns_as_json |-> FALSE, is_malicious |-> FALSE,
     risk_score |-> None, contract_id |-> "", bytecode |-> <<>>]

\* no split has been asked for
NoSplit ==
    /\ samples = <<>>
    /\ val_ratio = None
    /\ split = None

\* no entropy has been asked for on its own
NoEntropy ==
    /\ data = <<>>
    /\ entropy = None

\* float("inf"), and a loss as Some(l)
Infinity == None

\* no Trainer has been constructed
NoTraining ==
    /\ train_config = None
    /\ val_loader = None
    /\ epoch = 0
    /\ train_losses = <<>>
    /\ val_losses = <<>>
    /\ best_val_loss = Infinity
    /\ checkpoints = <<>>

\* no streaming dataset is being iterated
NoShards ==
    /\ files = <<>>
    /\ num_workers = 0
    /\ worker_pc = <<>>
    /\ worker_files = <<>>
    /\ file_reads = <<>>

OfflineIdle == NoSplit /\ NoEntropy /\ NoTraining /\ NoShards

InitCommon ==
    /\ hex_norm = <<>>
    /\ bytecode = <<>>
    /\ i = 0
    /\ counter = EmptyCounter
    /\ opcodes_list = <<>>
    /\ reads = <<>>
    /\ features = None
    /\ error = NoError
    /\ ds_item = None
    /\ stream_item = None
    /\ inf_tensor = None
    /\ onnx_inputs = None
    /\ scoring_call = None
    /\ outputs = None
    /\ result = None
    /\ calls = 0
    /\ request = None
    /\ response = None
    /\ engine_log = <<>>

InitExtract ==
    /\ bytecode_hex \in ExtractInputs
    /\ pc = "extract"
    /\ max_seq_length = 0
    /\ sample = BlankSample
    /\ model = None
    /\ onnx_session = None
    /\ config = None
    /\ scoring = <<>>
    /\ OfflineIdle
    /\ InitCommon

\* lines 130-139: normalise, bytes.fromhex, re-raise ValueError
ExtractBegin ==
    /\ pc = "extract"
    /\ hex_norm' = Normalize(bytecode_hex)
    /\ LET r == FromHex(Normalize(bytecode_hex))
       IN IF r.ok
          THEN /\ bytecode' = r.bytes
               /\ pc' = "parse"
               /\ error' = error
          ELSE /\ bytecode' = bytecode
               /\ pc' = "raised"
               /\ error' = "ValueError"
    /\ UNCHANGED <<bytecode_hex, i, counter, opcodes_list, reads, features>>
    /\ UNCHANGED <<encodeVars, predictVars, serviceVars, offlineVars>>

\* lines 182-202: one iteration of the while loop; an index outside the
\* bytes raises IndexError
ParseLoop ==
    /\ pc = "parse"
    /\ LoopCond(i, bytecode)
    /\ reads' = Append(reads, i)
    /\ IF i < Len(bytecode)
       THEN LET st == ParseIter([i |-> i, counter |-> counter,
                                 opcodes_list |-> opcodes_list], bytecode)
            IN /\ i' = st.i
               /\ counter' = st.counter
               /\ opcodes_list' = st.opcodes_list
               /\ pc' = pc
               /\ error' = error
       ELSE /\ pc' = "raised"
            /\ error' = "IndexError"
            /\ UNCHANGED <<i, counter, opcodes_list>>
    /\ UNCHANGED <<bytecode_hex, hex_norm, bytecode, features>>
    /\ UNCHANGED <<encodeVars, predictVars, serviceVars, offlineVars>>

\* lines 204, 145-174: the loop ends, the features are built and returned
ExtractFinish ==
    /\ pc = "parse"
    /\ ~LoopCond(i, bytecode)
    /\ LET f == BuildFeatures(hex_norm, bytecode, counter, opcodes_list)
       IN IF ValidateFeatures(f)
          THEN /\ features' = Some(f)
               /\ pc' = "done"
               /\ error' = error
          ELSE /\ features' = features
               /\ pc' = "raised"
               /\ error' = "ValidationError"
    /\ UNCHANGED <<bytecode_hex, hex_norm, bytecode, i, counter, opcodes_list,
                   reads>>
    /\ UNCHANGED <<encodeVars, predictVars, serviceVars, offlineVars>>

NextExtract == ExtractBegin \/ ParseLoop \/ ExtractFinish

SpecExtract == InitExtract /\ [][NextExtract]_vars

(***************************************************************************)
(* Properties of the decoder and of extract.                               *)
(***************************************************************************)
Min(a, b) == IF a <= b THEN a ELSE b

\* the bytes an instruction at an opcode byte owns: the opcode byte and,
\* for PUSHn (0x60..0x7F), n = op - 0x5F operand bytes
InstrWidth(op) == IF 96 <= op /\ op <= 127 THEN 1 + (op - 95) ELSE 1

\* the bytes consumed by the k-th decoded instruction: its width, or only
\* the remaining bytes for a truncated trailing PUSH
Consumed(k) == Min(InstrWidth(bytecode[reads[k] + 1]), Len(bytecode) - reads[k])

RECURSIVE SumConsumed(_)
SumConsumed(k) == IF k = 0 THEN 0 ELSE Consumed(k) + SumConsumed(k - 1)

\* the decoded instructions that own byte index j
Owners(j) == {k \in 1..Len(reads) : reads[k] <= j /\ j < reads[k] + Consumed(k)}

\* C1: when _parse_opcodes has returned, the bytes consumed by the decoded
\* instructions (one opcode byte each, plus the operand bytes of each PUSHn,
\* or only the remaining bytes for a truncated trailing PUSHn) add up to the
\* input length, and every byte belongs to exactly one instruction.
C1_ConsumedEqualsLength ==
    pc = "done" =>
        /\ Len(reads) = Len(opcodes_list)
        /\ \A k \in 1..Len(reads) : reads[k] < Len(bytecode)
        /\ SumConsumed(Len(reads)) = Len(bytecode)
        /\ \A j \in 0..(Len(bytecode) - 1) : Cardinality(Owners(j)) = 1

\* a decode with a complete PUSH followed by a truncated trailing PUSH
C1_Witness ==
    /\ pc = "done"
    /\ Len(reads) >= 3
    /\ \E k \in 1..Len(reads) :
          /\ InstrWidth(bytecode[reads[k] + 1]) > 1
          /\ Consumed(k) = InstrWidth(bytecode[reads[k] + 1])
    /\ Consumed(Len(reads)) < InstrWidth(bytecode[reads[Len(reads)] + 1])

RECURSIVE SumCounts(_, _)
SumCounts(cnt, keys) ==
    IF keys = {} THEN 0
    ELSE LET k == CHOOSE x \in keys : TRUE
         IN cnt[k] + SumCounts(cnt, keys \ {k})

\* a loop iteration on a PUSH byte emits PUSH{op-0x5F} once and moves the
\* cursor by 1 + (op-0x5F)
C2_PushStep ==
    (pc = "parse" /\ i < Len(bytecode) /\ reads' # reads
        /\ 96 <= bytecode[i + 1] /\ bytecode[i + 1] <= 127)
    => LET n == bytecode[i + 1] - 95
           name == "PUSH" \o Dec(n)
       IN /\ i' = i + 1 + n
          /\ opcodes_list' = Append(opcodes_list, name)
          /\ DistGet(counter', name) = DistGet(counter, name) + 1
          /\ SumCounts(counter', DOMAIN counter')
                = SumCounts(counter, DOMAIN counter) + 1

\* no operand byte of a PUSH is read as an opcode, the histogram counts the
\* decoded instructions only, bytecode_length is the raw byte count
C2_OperandsNotDecoded ==
    pc = "done" =>
        /\ \A k \in 1..Len(reads) :
              LET op == bytecode[reads[k] + 1]
              IN (96 <= op /\ op <= 127) =>
                    \A m \in 1..Len(reads) :
                        ~(reads[k] < reads[m] /\ reads[m] <= reads[k] + (op - 95))
        /\ SumCounts(features[1].opcode_distribution,
                     DOMAIN features[1].opcode_distribution) = Len(reads)
        /\ features[1].bytecode_length = Len(bytecode)

ExampleBytecode == <<"0", "x", "6", "0", "8", "0", "6", "0", "4", "0", "5", "2">>

\* 0x6080604052 decodes to PUSH1, PUSH1, MSTORE with bytecode_length 5
C2_Example ==
    (pc = "done" /\ bytecode_hex = ExampleBytecode) =>
        /\ opcodes_list = <<"PUSH1", "PUSH1", "MSTORE">>
        /\ DOMAIN features[1].opcode_distribution = {"PUSH1", "MSTORE"}
        /\ features[1].opcode_distribution["PUSH1"] = 2
        /\ features[1].opcode_distribution["MSTORE"] = 1
        /\ features[1].bytecode_length = 5

\* C2: with the cursor on a byte op in 0x60..0x7F the decoder emits exactly
\* one instruction PUSH{op-0x5F} and advances the cursor by 1 + (op-0x5F);
\* operand bytes are never emitted as instructions nor counted in the
\* histogram (0x6080604052 gives PUSH1, PUSH1, MSTORE, bytecode_length 5).
C2_PushSkipsOperands ==
    /\ [][C2_PushStep]_vars
    /\ [](C2_OperandsNotDecoded /\ C2_Example)

\* the example has been decoded
C2_Witness ==
    /\ pc = "done"
    /\ bytecode_hex = ExampleBytecode
    /\ Len(opcodes_list) = 3

\* the decoder never reads outside the bytes
C3_ReadsInBounds ==
    /\ error # "IndexError"
    /\ \A k \in 1..Len(reads) : reads[k] < Len(bytecode)

\* a truncated PUSHn is emitted once, as PUSHn, and is the last instruction
C3_TruncatedPushLast ==
    pc = "done" =>
        /\ i >= Len(bytecode)
        /\ \A k \in 1..Len(reads) :
              LET op == bytecode[reads[k] + 1]
              IN reads[k] + InstrWidth(op) > Len(bytecode) =>
                    /\ k = Len(reads)
                    /\ Len(opcodes_list) = k
                    /\ opcodes_list[k] = "PUSH" \o Dec(op - 95)

\* every loop iteration moves the cursor forward
C3_CursorIncreases == (pc = "parse" /\ reads' # reads) => i' > i

\* extract is never stuck before it returns or raises (its first step has no
\* guard but its position), and the cursor, which every iteration increases,
\* never passes the last operand of a PUSH32
C3_Terminates ==
    /\ \/ pc \in {"done", "raised"}
       \/ pc = "extract"
       \/ ENABLED ParseLoop
       \/ ENABLED ExtractFinish
    /\ i <= Len(bytecode) + 32

\* C3: decoding is total: for any byte sequence, also one whose last PUSHn
\* declares more operand bytes than remain, the decoder never reads an index
\* >= len(bytecode), emits the truncated PUSHn once with nothing after it,
\* and terminates (the cursor strictly increases on every loop iteration
\* and is bounded).
C3_DecodingTotal ==
    /\ [](C3_ReadsInBounds /\ C3_TruncatedPushLast /\ C3_Terminates)
    /\ [][C3_CursorIncreases]_vars

\* a decode that ended on a truncated PUSH
C3_Witness ==
    /\ pc = "done"
    /\ i > Len(bytecode)
    /\ Len(reads) >= 2

\* the input with lower case letters and without one leading 0x
Unprefixed(s) ==
    LET l == Lower(s)
    IN IF Len(l) >= 2 /\ l[1] = "0" /\ l[2] = "x" THEN SubSeq(l, 3, Len(l)) ELSE l

\* s encodes a byte sequence: apart from whitespace between bytes it is
\* made of pairs of adjacent hex digits
EncodesBytes(s) ==
    /\ \A p \in 1..Len(s) : IsSpace(s[p]) \/ IsLowerHex(s[p])
    /\ \A p \in 1..Len(s) :
          (/\ ~IsSpace(s[p])
           /\ Cardinality({q \in 1..(p - 1) : ~IsSpace(s[q])}) % 2 = 0)
          => (p < Len(s) /\ ~IsSpace(s[p + 1]))

\* C8: extract fails with the invalid-bytecode error if and only if the
\* input is not hex: every input that, lower-cased and without its optional
\* 0x prefix, encodes a byte sequence (the empty one included) yields a
\* ContractFeatures and no error, whatever the bytes are; for any other
\* input the ValueError reaches the caller and no features are returned.
C8_FailsIffNotHex ==
    /\ pc \in {"done", "raised"} =>
          ((pc = "raised") <=> ~EncodesBytes(Unprefixed(bytecode_hex)))
    /\ pc = "raised" => (error = "ValueError" /\ features = None)
    /\ pc = "done" => (error = NoError /\ features # None)
    /\ (pc = "parse" /\ ~LoopCond(i, bytecode)) =>
          EncodesBytes(Unprefixed(bytecode_hex))

\* an input with a 0x prefix and upper case letters, whose bytes end in a
\* truncated PUSH, was accepted
C8_Witness ==
    /\ pc = "done"
    /\ bytecode_hex # Lower(bytecode_hex)
    /\ StartsWith0x(Lower(bytecode_hex))
    /\ i > Len(bytecode)
    /\ features # None

\* the count of mnemonic name in a distribution
CountOf(dist, name) == IF name \in DOMAIN dist THEN dist[name] ELSE 0

\* C9: every ContractFeatures returned by extract has unique_opcodes equal
\* to the number of keys of opcode_distribution, and external_calls, the sum
\* of the CALL, DELEGATECALL, STATICCALL and CALLCODE counts, is at least
\* call_count.
C9_FeatureInvariants ==
    features # None =>
        /\ features[1].unique_opcodes
              = Cardinality(DOMAIN features[1].opcode_distribution)
        /\ features[1].call_count = CountOf(features[1].opcode_distribution, "CALL")
        /\ features[1].external_calls
              = CountOf(features[1].opcode_distribution, "CALL")
                + CountOf(features[1].opcode_distribution, "DELEGATECALL")
                + CountOf(features[1].opcode_distribution, "STATICCALL")
                + CountOf(features[1].opcode_distribution, "CALLCODE")
        /\ features[1].external_calls >= features[1].call_count

\* features with a repeated CALL and a DELEGATECALL
C9_Witness ==
    /\ features # None
    /\ features[1].call_count = 2
    /\ features[1].external_calls = 3
    /\ features[1].unique_opcodes = 3

(***************************************************************************)
(* Sequence encoding: ContractDataset, StreamingContractDataset            *)
(* (dataset.py) and InferenceService._preprocess_bytecode (service.py).    *)
(***************************************************************************)
VULN_TYPES ==
    <<"reentrancy", "access_control", "integer_overflow", "integer_underflow",
      "unchecked_call", "tx_origin", "timestamp_dependency", "flash_loan",
      "oracle_manipulation", "rug_pull", "honeypot", "logic_error",
      "denial_of_service">>

\* {v: i for i, v in enumerate(VULN_TYPES)}
VULN_TO_IDX_Shifted ==
    [v \in {VULN_TYPES[k] : k \in 1..Len(VULN_TYPES)} |->
        (CHOOSE k \in 1..Len(VULN_TYPES) : VULN_TYPES[k] = v) % Len(VULN_TYPES)]
VULN_TO_IDX ==
    [v \in {VULN_TYPES[k] : k \in 1..Len(VULN_TYPES)} |->
        (CHOOSE k \in 1..Len(VULN_TYPES) :
            /\ VULN_TYPES[k] = v
            /\ \A m \in (k + 1)..Len(VULN_TYPES) : VULN_TYPES[m] # v) - 1]

\* the padding token of each encoder and the one _predict_onnx compares with
DsPadToken == 256
StreamPadToken == 256
InfPadToken == 256
OnnxPadToken == 256

\* torch.ones(n), torch.zeros(n), torch.full((n,), v)
Ones(n) == [k \in 1..n |-> 1]
Zeros(n) == [k \in 1..n |-> 0]
Full(n, v) == [k \in 1..n |-> v]

\* ContractDataset._bytecode_to_tensor: the byte values, or the empty
\* tensor when bytes.fromhex raises ValueError
BytecodeToTensor(hex) ==
    LET r == FromHex(StripPrefix(Lower(hex)))
    IN IF r.ok THEN [raised |-> FALSE, tensor |-> r.bytes]
       ELSE [raised |-> FALSE, tensor |-> <<>>]

\* ContractDataset.__getitem__, lines 67-82: mask, then pad or truncate
DsPadOrTruncateMaskOnes(tn, L) ==
    IF Len(tn) < L
    THEN [bytecode |-> tn \o Full(L - Len(tn), DsPadToken),
          attention_mask |-> Ones(Len(tn)) \o Ones(L - Len(tn))]
    ELSE [bytecode |-> SubSeq(tn, 1, L),
          attention_mask |-> SubSeq(Ones(Len(tn)), 1, L)]
DsPadOrTruncate(tn, L) ==
    IF Len(tn) < L
    THEN [bytecode |-> tn \o Full(L - Len(tn), DsPadToken),
          attention_mask |-> Ones(Len(tn)) \o Zeros(L - Len(tn))]
    ELSE [bytecode |-> SubSeq(tn, 1, L),
          attention_mask |-> SubSeq(Ones(Len(tn)), 1, L)]

\* lines 85-89 and 182-188: the multi-label vector of a list of names
VulnLabelsLastOnly(names) ==
    [k \in 1..Len(VULN_TYPES) |->
        IF /\ names # <<>>
           /\ names[Len(names)] \in DOMAIN VULN_TO_IDX
           /\ VULN_TO_IDX[names[Len(names)]] = k - 1
        THEN 1 ELSE 0]
VulnLabels(names) ==
    [k \in 1..Len(VULN_TYPES) |->
        IF \E j \in 1..Len(names) :
              names[j] \in DOMAIN VULN_TO_IDX /\ VULN_TO_IDX[names[j]] = k - 1
        THEN 1 ELSE 0]

\* ContractDataset.__getitem__ on a sample; scores in thousandths
GetItem(s, L) ==
    LET tn == BytecodeToTensor(s.bytecode)
        enc == DsPadOrTruncate(tn.tensor, L)
    IN IF tn.raised THEN [raised |-> TRUE, item |-> None]
       ELSE [raised |-> FALSE,
             item |-> Some(
                [bytecode |-> enc.bytecode,
                 attention_mask |-> enc.attention_mask,
                 is_malicious |-> IF s.is_malicious THEN 1000 ELSE 0,
                 vulnerabilities |-> VulnLabels(s.labels),
                 risk_score |-> IF s.risk_score # None /\ s.risk_score[1] # 0
                                THEN s.risk_score[1] * 10 ELSE 0,
                 contract_id |-> s.contract_id])]

\* StreamingContractDataset._bytecode_to_tensor
StreamBytecodeToTensorNoExcept(hex) ==
    LET r == FromHex(StripPrefix(Lower(hex)))
    IN IF r.ok THEN [raised |-> FALSE, tensor |-> r.bytes]
       ELSE [raised |-> TRUE, tensor |-> <<>>]
StreamBytecodeToTensor(hex) ==
    LET r == FromHex(StripPrefix(Lower(hex)))
    IN IF r.ok THEN [raised |-> FALSE, tensor |-> r.bytes]
       ELSE [raised |-> FALSE, tensor |-> <<>>]

\* StreamingContractDataset._process_row, lines 164-179
StreamPadOrTruncatePadZero(tn, L) ==
    IF Len(tn) < L
    THEN [bytecode |-> tn \o Full(L - Len(tn), 0),
          attention_mask |-> Ones(Len(tn)) \o Zeros(L - Len(tn))]
    ELSE [bytecode |-> SubSeq(tn, 1, L),
          attention_mask |-> SubSeq(Ones(Len(tn)), 1, L)]
StreamPadOrTruncate(tn, L) ==
    IF Len(tn) < L
    THEN [bytecode |-> tn \o Full(L - Len(tn), StreamPadToken),
          attention_mask |-> Ones(Len(tn)) \o Zeros(L - Len(tn))]
    ELSE [bytecode |-> SubSeq(tn, 1, L),
          attention_mask |-> SubSeq(Ones(Len(tn)), 1, L)]

\* the parquet row of a sample: the labels as a list or as JSON text (the
\* empty text for no labels), the risk score absent when the sample has none
RowOf(s) ==
    [bytecode |-> s.bytecode,
     vulnerabilities |-> [is_str |-> s.vulns_as_json,
                          blank |-> s.vulns_as_json /\ s.labels = <<>>,
                          names |-> s.labels],
     is_malicious |-> s.is_malicious,
     risk_score |-> s.risk_score,
     contract_id |-> s.contract_id]

\* lines 183-185: json.loads of a non-empty text, [] for the empty text
RowVulns(v) == IF v.is_str THEN (IF v.blank THEN <<>> ELSE v.names) ELSE v.names

\* StreamingContractDataset._process_row; scores in thousandths
ProcessRow(row, L) ==
    LET tn == StreamBytecodeToTensor(row.bytecode)
        enc == StreamPadOrTruncate(tn.tensor, L)
    IN IF tn.raised THEN [raised |-> TRUE, item |-> None]
       ELSE [raised |-> FALSE,
             item |-> Some(
                [bytecode |-> enc.bytecode,
                 attention_mask |-> enc.attention_mask,
                 is_malicious |-> IF row.is_malicious THEN 1000 ELSE 0,
                 vulnerabilities |-> VulnLabels(RowVulns(row.vulnerabilities)),
                 risk_score |-> IF row.risk_score # None
                                THEN row.risk_score[1] * 10 ELSE 0,
                 contract_id |-> row.contract_id])]

\* InferenceService._preprocess_bytecode, lines 119-127
InfPadOrTruncateKeepTail(tn, L) ==
    IF Len(tn) < L
    THEN tn \o Full(L - Len(tn), InfPadToken)
    ELSE SubSeq(tn, Len(tn) - L + 1, Len(tn))
InfPadOrTruncate(tn, L) ==
    IF Len(tn) < L
    THEN tn \o Full(L - Len(tn), InfPadToken)
    ELSE SubSeq(tn, 1, L)

\* InferenceService._preprocess_bytecode: a batch of one sequence
PreprocessBytecode(hex, L) ==
    LET r == FromHex(StripPrefix(Lower(hex)))
        b == IF r.ok THEN r.bytes ELSE <<>>
    IN <<InfPadOrTruncate(b, L)>>

\* InferenceService._predict_onnx, lines 149-152
OnnxInputs(tn) ==
    [bytecode |-> tn,
     attention_mask |->
        [b \in 1..Len(tn) |->
            [k \in 1..Len(tn[b]) |-> IF tn[b][k] # OnnxPadToken THEN 1 ELSE 0]]]

\* the bytes 0x00, 0x60 and 0xff
EncBytes == {0, 96, 255}
\* longest byte string enumerated in full over EncBytes
MaxEncBytes == 4

EncodeInputs ==
    {Render(bs, FALSE) : bs \in ByteSeqs(EncBytes, MaxEncBytes)}
        \cup StyledInputs \cup SampleInputs

\* the two samples of tests/test_dataset.py, one with a repeated and an
\* unknown label given as JSON text, one with the empty text
SampleProfiles ==
    {[labels |-> <<"reentrancy">>, vulns_as_json |-> FALSE,
      is_malicious |-> TRUE, risk_score |-> Some(85), contract_id |-> "test1"],
     [labels |-> <<>>, vulns_as_json |-> FALSE,
      is_malicious |-> FALSE, risk_score |-> Some(20), contract_id |-> "test2"],
     [labels |-> <<"honeypot", "bogus", "reentrancy", "honeypot">>,
      vulns_as_json |-> TRUE, is_malicious |-> TRUE, risk_score |-> None,
      contract_id |-> "test3"],
     [labels |-> <<>>, vulns_as_json |-> TRUE,
      is_malicious |-> FALSE, risk_score |-> Some(0), contract_id |-> "test4"]}

InitEncode ==
    /\ bytecode_hex \in EncodeInputs
    /\ max_seq_length \in 0..MaxSeqLen
    /\ \E s \in SampleProfiles :
          sample = s @@ [bytecode |-> bytecode_hex]
    /\ pc = "getitem"
    /\ model = None
    /\ onnx_session = None
    /\ config = None
    /\ scoring = <<>>
    /\ OfflineIdle
    /\ InitCommon

\* dataset[idx] on a ContractDataset holding the sample
DatasetGetItem ==
    /\ pc = "getitem"
    /\ LET r == GetItem(sample, max_seq_length)
       IN IF r.raised
          THEN /\ pc' = "raised"
               /\ error' = "ValueError"
               /\ ds_item' = ds_item
          ELSE /\ pc' = "process_row"
               /\ error' = error
               /\ ds_item' = r.item
    /\ UNCHANGED <<bytecode_hex, max_seq_length, sample, stream_item,
                   inf_tensor, onnx_inputs>>
    /\ UNCHANGED <<extractVars, predictVars, serviceVars, offlineVars>>

\* _process_row on the parquet row of the same sample
StreamProcessRow ==
    /\ pc = "process_row"
    /\ LET r == ProcessRow(RowOf(sample), max_seq_length)
       IN IF r.raised
          THEN /\ pc' = "raised"
               /\ error' = "ValueError"
               /\ stream_item' = stream_item
          ELSE /\ pc' = "preprocess"
               /\ error' = error
               /\ stream_item' = r.item
    /\ UNCHANGED <<bytecode_hex, max_seq_length, sample, ds_item, inf_tensor,
                   onnx_inputs>>
    /\ UNCHANGED <<extractVars, predictVars, serviceVars, offlineVars>>

\* _preprocess_bytecode on the same bytecode
InferencePreprocess ==
    /\ pc = "preprocess"
    /\ inf_tensor' = Some(PreprocessBytecode(bytecode_hex, max_seq_length))
    /\ pc' = "onnx_inputs"
    /\ UNCHANGED <<bytecode_hex, max_seq_length, sample, ds_item, stream_item,
                   onnx_inputs, error>>
    /\ UNCHANGED <<extractVars, predictVars, serviceVars, offlineVars>>

\* the inputs _predict_onnx builds from the preprocessed tensor
BuildOnnxInputs ==
    /\ pc = "onnx_inputs"
    /\ onnx_inputs' = Some(OnnxInputs(inf_tensor[1]))
    /\ pc' = "done"
    /\ UNCHANGED <<bytecode_hex, max_seq_length, sample, ds_item, stream_item,
                   inf_tensor, error>>
    /\ UNCHANGED <<extractVars, predictVars, serviceVars, offlineVars>>

NextEncode ==
    DatasetGetItem \/ StreamProcessRow \/ InferencePreprocess \/ BuildOnnxInputs

SpecEncode == InitEncode /\ [][NextEncode]_vars

(***************************************************************************)
(* Properties of the encoders.                                             *)
(***************************************************************************)
\* the characters of s that are not whitespace
NonSpace(s) == SelectSeq(s, LAMBDA c : ~IsSpace(c))

\* the byte sequence a hex input encodes: one byte per pair of digits
RefBytes(hex) ==
    LET ns == NonSpace(Unprefixed(hex))
    IN [k \in 1..(Len(ns) \div 2) |->
           16 * DigitVal(ns[2 * k - 1]) + DigitVal(ns[2 * k])]

ValidInput == EncodesBytes(Unprefixed(bytecode_hex))

\* the (sequence, mask) pairs the three encoders produced; the inference
\* encoder's mask is the one _predict_onnx derives
Encodings ==
    {[bytecode |-> ds_item[1].bytecode,
      attention_mask |-> ds_item[1].attention_mask],
     [bytecode |-> stream_item[1].bytecode,
      attention_mask |-> stream_item[1].attention_mask],
     [bytecode |-> inf_tensor[1][1],
      attention_mask |-> onnx_inputs[1].attention_mask[1]]}

\* C4: encoding a valid bytecode of K bytes with max_len >= K gives a
\* sequence of length max_len whose first K entries are the byte values in
\* order, and a mask of K true positions followed by max_len - K false
\* ones, with 256 at every false position.
C4_PaddedEncoding ==
    (pc = "done" /\ ValidInput /\ Len(RefBytes(bytecode_hex)) <= max_seq_length)
    => LET K == Len(RefBytes(bytecode_hex))
       IN \A it \in {ds_item[1], stream_item[1]} :
             /\ Len(it.bytecode) = max_seq_length
             /\ Len(it.attention_mask) = max_seq_length
             /\ \A k \in 1..K : it.bytecode[k] = RefBytes(bytecode_hex)[k]
             /\ \A k \in 1..K : it.attention_mask[k] = 1
             /\ \A k \in (K + 1)..max_seq_length :
                   it.attention_mask[k] = 0 /\ it.bytecode[k] = 256

\* a valid bytecode of at least two bytes, padded by at least two positions
C4_Witness ==
    /\ pc = "done"
    /\ ValidInput
    /\ Len(RefBytes(bytecode_hex)) >= 2
    /\ Len(RefBytes(bytecode_hex)) + 2 <= max_seq_length

\* C5: encoding a valid bytecode longer than max_len gives exactly its
\* first max_len bytes in order, a sequence of length max_len and a mask
\* that is true everywhere.
C5_TruncatedEncoding ==
    (pc = "done" /\ ValidInput /\ Len(RefBytes(bytecode_hex)) > max_seq_length)
    => \A e \in Encodings :
          /\ Len(e.bytecode) = max_seq_length
          /\ Len(e.attention_mask) = max_seq_length
          /\ \A k \in 1..max_seq_length :
                /\ e.bytecode[k] = RefBytes(bytecode_hex)[k]
                /\ e.attention_mask[k] = 1

\* a valid bytecode cut to a shorter, non-empty sequence whose dropped tail
\* differs from its head
C5_Witness ==
    /\ pc = "done"
    /\ ValidInput
    /\ max_seq_length >= 2
    /\ Len(RefBytes(bytecode_hex)) > max_seq_length
    /\ RefBytes(bytecode_hex)[1]
          # RefBytes(bytecode_hex)[Len(RefBytes(bytecode_hex))]

\* C6: encoding never raises: for a bytecode string that is not hex each of
\* the three encoders returns a sequence of max_len padding values 256 with
\* an all-false mask, as for a zero-length byte sequence.
C6_InvalidIsAllPadding ==
    /\ pc # "raised" /\ error = NoError
    /\ (pc = "done" /\ ~ValidInput) =>
          \A e \in Encodings :
             /\ Len(e.bytecode) = max_seq_length
             /\ Len(e.attention_mask) = max_seq_length
             /\ \A k \in 1..max_seq_length :
                   e.bytecode[k] = 256 /\ e.attention_mask[k] = 0

\* an input that starts with valid bytes and ends in a non-hex character
C6_Witness ==
    /\ pc = "done"
    /\ ~ValidInput
    /\ Len(bytecode_hex) >= 3
    /\ IsLowerHex(bytecode_hex[1]) /\ IsLowerHex(bytecode_hex[2])
    /\ max_seq_length >= 2

\* C7: for every input and every max_len, the sequence and the mask of an
\* encoder both have length max_len, a position with mask true holds a
\* value in 0..255, and 256 stands exactly at the positions whose mask is
\* false; so the mask _predict_onnx derives as sequence != 256 is the
\* encoders' validity mask.
C7_SentinelMatchesMask ==
    pc = "done" =>
        /\ \A e \in Encodings :
              /\ Len(e.bytecode) = max_seq_length
              /\ Len(e.attention_mask) = max_seq_length
              /\ \A k \in 1..max_seq_length :
                    /\ e.attention_mask[k] \in {0, 1}
                    /\ e.attention_mask[k] = 1 => e.bytecode[k] \in 0..255
                    /\ (e.bytecode[k] = 256) <=> (e.attention_mask[k] = 0)
        /\ onnx_inputs[1].attention_mask[1] = ds_item[1].attention_mask
        /\ onnx_inputs[1].attention_mask[1] = stream_item[1].attention_mask

\* an encoding holding the bytes 0x00 and 0xff next to padding
C7_Witness ==
    /\ pc = "done"
    /\ \E a, b, c \in 1..max_seq_length :
          /\ ds_item[1].bytecode[a] = 0
          /\ ds_item[1].bytecode[b] = 255
          /\ ds_item[1].bytecode[c] = 256

(***************************************************************************)
(* InferenceService (service.py).  Probabilities, confidences and the raw  *)
(* risk value are in thousandths: 500 is 0.5.                              *)
(***************************************************************************)
\* the mutation of _get_severity that swaps the two upper tiers of the first
\* group
GetSeveritySwapped(vuln_type, confidence) ==
    IF vuln_type \in {"reentrancy", "access_control", "flash_loan",
                      "oracle_manipulation"}
    THEN (IF confidence > 800 THEN "high"
          ELSE IF confidence > 600 THEN "critical" ELSE "medium")
    ELSE IF vuln_type \in {"rug_pull", "honeypot", "integer_overflow",
                           "integer_underflow"}
    THEN (IF confidence > 800 THEN "high"
          ELSE IF confidence > 500 THEN "medium" ELSE "low")
    ELSE (IF confidence > 800 THEN "medium" ELSE "low")

\* _get_severity
GetSeverityInclusive(vuln_type, confidence) ==
    IF vuln_type \in {"reentrancy", "access_control", "flash_loan",
                      "oracle_manipulation"}
    THEN (IF confidence >= 800 THEN "critical"
          ELSE IF confidence >= 600 THEN "high" ELSE "medium")
    ELSE IF vuln_type \in {"rug_pull", "honeypot", "integer_overflow",
                           "integer_underflow"}
    THEN (IF confidence >= 800 THEN "high"
          ELSE IF confidence >= 500 THEN "medium" ELSE "low")
    ELSE (IF confidence >= 800 THEN "medium" ELSE "low")
GetSeverity(vuln_type, confidence) ==
    IF vuln_type \in {"reentrancy", "access_control", "flash_loan",
                      "oracle_manipulation"}
    THEN (IF confidence > 800 THEN "critical"
          ELSE IF confidence > 600 THEN "high" ELSE "medium")
    ELSE IF vuln_type \in {"rug_pull", "honeypot", "integer_overflow",
                           "integer_underflow"}
    THEN (IF confidence > 800 THEN "high"
          ELSE IF confidence > 500 THEN "medium" ELSE "low")
    ELSE (IF confidence > 800 THEN "medium" ELSE "low")

\* line 174: vuln_probs[i] > 0.3
IsReportedAtLeast(p) == p >= 300
IsReported(p) == p > 300

\* lines 173-180: the findings above the reporting threshold, in the order
\* of VULN_TYPES
RECURSIVE ReportedFrom(_, _)
ReportedFrom(vuln_probs, k) ==
    IF k > Len(VULN_TYPES) THEN <<>>
    ELSE IF IsReported(vuln_probs[k])
         THEN <<[vuln_type |-> VULN_TYPES[k],
                 confidence |-> vuln_probs[k],
                 severity |-> GetSeverity(VULN_TYPES[k], vuln_probs[k])]>>
              \o ReportedFrom(vuln_probs, k + 1)
         ELSE ReportedFrom(vuln_probs, k + 1)

\* list.sort(key=confidence, reverse=True): stable, equal keys keep their
\* order; x goes behind every element whose confidence is not smaller
InsertByConfidenceTiesFirst(sorted, x) ==
    LET n == Cardinality({k \in 1..Len(sorted) :
                            sorted[k].confidence > x.confidence})
    IN SubSeq(sorted, 1, n) \o <<x>> \o SubSeq(sorted, n + 1, Len(sorted))
InsertByConfidence(sorted, x) ==
    LET n == Cardinality({k \in 1..Len(sorted) :
                            sorted[k].confidence >= x.confidence})
    IN SubSeq(sorted, 1, n) \o <<x>> \o SubSeq(sorted, n + 1, Len(sorted))

RECURSIVE SortByConfidence(_)
SortByConfidence(lst) ==
    IF lst = <<>> THEN <<>>
    ELSE InsertByConfidence(SortByConfidence(SubSeq(lst, 1, Len(lst) - 1)),
                            lst[Len(lst)])

\* float(outputs["is_malicious"]) > 0.5
IsMaliciousAtLeastHalf(p) == p >= 500
IsMalicious(p) == p > 500

\* int(float(outputs["risk_score"]) * 100)
RiskScoreUnscaled(r) == r
RiskScore(r) == (r * 100) \div 1000

\* lines 186-189: try extract, except Exception: features = None; nothing
\* escapes the try statement
TryExtractNoExcept(hex) ==
    LET r == ExtractWhole(hex)
    IN [raised |-> r.raised, features |-> r.features]
TryExtract(hex) ==
    LET r == ExtractWhole(hex)
    IN [raised |-> FALSE, features |-> IF r.raised THEN None ELSE r.features]

FeaturesOrNone(hex) == TryExtract(hex).features

\* _postprocess_outputs
PostprocessOutputs(out, hex) ==
    [is_malicious |-> IsMalicious(out.is_malicious),
     malicious_probability |-> out.is_malicious,
     vulnerabilities |-> SortByConfidence(ReportedFrom(out.vulnerabilities, 1)),
     risk_score |-> RiskScore(out.risk_score),
     embedding |-> Some(out.features),
     contract_features |-> FeaturesOrNone(hex)]

\* the Field constraints of PredictionResult and VulnerabilityPrediction
ValidateResult(r) ==
    /\ 0 <= r.malicious_probability /\ r.malicious_probability <= 1000
    /\ 0 <= r.risk_score /\ r.risk_score <= 100
    /\ \A k \in 1..Len(r.vulnerabilities) :
          /\ 0 <= r.vulnerabilities[k].confidence
          /\ r.vulnerabilities[k].confidence <= 1000

\* the scoring function is opaque: its outputs are drawn from a set that
\* varies one output at a time around BaseOutput
ZeroVulns == [k \in 1..Len(VULN_TYPES) |-> 0]
BaseOutput ==
    [is_malicious |-> 700, vulnerabilities |-> ZeroVulns, risk_score |-> 500,
     features |-> <<1, 0>>]
MaliciousGrid == {0, 499, 500, 501, 1000}
RiskGrid == {0, 5, 295, 999, 1000}
VulnGrid == {200, 300, 301, 400, 500, 600, 650, 800, 850}
\* reentrancy 0.4, integer_overflow 0.65, unchecked_call 0.4: a finding that
\* the sort moves to the front and two findings of equal confidence
ThreeFindings ==
    [k \in 1..Len(VULN_TYPES) |->
        IF k = 1 THEN 400 ELSE IF k = 3 THEN 650 ELSE IF k = 5 THEN 400 ELSE 0]
\* reentrancy with integer_overflow or unchecked_call, the second at the
\* same probability as the first or just above the reporting threshold
VulnVectors ==
    UNION {{[k \in 1..Len(VULN_TYPES) |->
               IF k = 1 THEN a ELSE IF k = other THEN b ELSE 0] :
               b \in {a, 301}, other \in {3, 5}} : a \in VulnGrid}
        \cup {ThreeFindings}
EmbeddingGrid == {<<0, 0>>, <<1, 0>>, <<0 - 1, 0>>, <<1, 1>>}

ScoringOutputs ==
    {[BaseOutput EXCEPT !.is_malicious = m] : m \in MaliciousGrid}
        \cup {[BaseOutput EXCEPT !.risk_score = r] : r \in RiskGrid}
        \cup {[BaseOutput EXCEPT !.vulnerabilities = v] : v \in VulnVectors}
        \cup {[BaseOutput EXCEPT !.features = e] : e \in EmbeddingGrid}

\* a contract, a bytecode with a truncated PUSH, and a string that is not hex
PredictInputs ==
    {<<"0", "x", "6", "0", "8", "0", "6", "0", "4", "0", "5", "2">>,
     <<"6", "0", "f", "1", "6", "1">>,
     <<"0", "x", "6", "g">>}

\* __init__ lines 44-53: the ONNX session when use_onnx is set and the suffix
\* of the model path is .onnx, else the PyTorch model; each loader sets the
\* other handle to None
LoadEngine(use_onnx, suffix) ==
    IF use_onnx /\ suffix = ".onnx"
    THEN [model |-> None, onnx_session |-> Some("InferenceSession")]
    ELSE [model |-> Some("VulnerabilityDetector"), onnx_session |-> None]

\* an ONNX service on an .onnx file and a PyTorch service on a checkpoint
PredictConfigs ==
    {[use_onnx |-> TRUE, suffix |-> ".onnx"],
     [use_onnx |-> FALSE, suffix |-> ".pt"]}

InitPredict ==
    /\ \E cfg \in PredictConfigs :
          /\ config = Some(cfg)
          /\ model = LoadEngine(cfg.use_onnx, cfg.suffix).model
          /\ onnx_session = LoadEngine(cfg.use_onnx, cfg.suffix).onnx_session
    /\ scoring = <<>>
    /\ max_seq_length \in (MaxSeqLen - 1)..MaxSeqLen
    /\ bytecode_hex = <<>>
    /\ sample = BlankSample
    /\ pc = "serving"
    /\ OfflineIdle
    /\ InitCommon

\* predict lines 93-96: the ONNX session when it is loaded, with the mask
\* _predict_onnx derives; else the PyTorch model, called without a mask
ScoringCallOtherEngine(session, tn) ==
    IF session # None
    THEN [engine |-> "pytorch", bytecode |-> tn, attention_mask |-> None]
    ELSE [engine |-> "onnx", bytecode |-> tn,
          attention_mask |-> Some(OnnxInputs(tn).attention_mask)]
ScoringCall(session, tn) ==
    IF session # None
    THEN [engine |-> "onnx", bytecode |-> tn,
          attention_mask |-> Some(OnnxInputs(tn).attention_mask)]
    ELSE [engine |-> "pytorch", bytecode |-> tn, attention_mask |-> None]

\* what predict hands back for a scoring output: the validated result, or
\* the exception that leaves it
PredictOutcome(out, hex) ==
    IF TryExtract(hex).raised
    THEN [error |-> "ValueError", result |-> None]
    ELSE LET res == PostprocessOutputs(out, hex)
         IN IF ValidateResult(res)
            THEN [error |-> NoError, result |-> Some(res)]
            ELSE [error |-> "ValidationError", result |-> None]

\* predict(bytecode_hex) with the scoring output out: preprocess, score on
\* the loaded engine, postprocess
PredictCall(hex, out) ==
    \E tn \in {PreprocessBytecode(hex, max_seq_length)},
       outcome \in {PredictOutcome(out, hex)} :
        /\ bytecode_hex' = hex
        /\ inf_tensor' = Some(tn)
        /\ onnx_inputs' = IF onnx_session # None THEN Some(OnnxInputs(tn))
                          ELSE onnx_inputs
        /\ scoring_call' = Some(ScoringCall(onnx_session, tn))
        /\ outputs' = Some(out)
        /\ result' = outcome.result
        /\ error' = IF outcome.error = NoError THEN error ELSE outcome.error
        /\ pc' = IF outcome.error = NoError THEN pc ELSE "raised"

\* predict on a service whose scoring function is opaque
Predict ==
    /\ pc = "serving"
    /\ calls < MaxCalls
    /\ \E hex \in PredictInputs, out \in ScoringOutputs : PredictCall(hex, out)
    /\ calls' = calls + 1
    /\ UNCHANGED <<max_seq_length, sample, ds_item, stream_item, model,
                   onnx_session>>
    /\ UNCHANGED <<extractVars, serviceVars, offlineVars>>

NextPredict == Predict

SpecPredict == InitPredict /\ [][NextPredict]_vars

\* C10: in every PredictionResult is_malicious is true exactly when the raw
\* malicious probability of that same call is strictly greater than 0.5
\* (0.5 itself gives false), whatever the earlier calls on the service
\* returned.
C10_MaliciousIffAboveHalf ==
    result # None =>
        /\ result[1].malicious_probability = outputs[1].is_malicious
        /\ result[1].is_malicious <=> (outputs[1].is_malicious > 500)

\* a later call scoring exactly 0.5 was reported as not malicious
C10_Witness ==
    /\ calls = MaxCalls
    /\ result # None
    /\ outputs[1].is_malicious = 500
    /\ ~result[1].is_malicious

\* the findings of the last result and the probabilities they were made from
Findings == result[1].vulnerabilities
Probs == outputs[1].vulnerabilities
FindingsOf(t) == {j \in 1..Len(Findings) : Findings[j].vuln_type = t}

\* C11: a category appears in the vulnerabilities of a PredictionResult
\* exactly when its probability in the scoring output is strictly greater
\* than 0.3; each category appears at most once, and the confidence reported
\* for it is that probability.
C11_ReportedIffAboveThreshold ==
    result # None =>
        /\ \A k \in 1..Len(VULN_TYPES) :
              /\ (Probs[k] > 300) <=> (FindingsOf(VULN_TYPES[k]) # {})
              /\ Cardinality(FindingsOf(VULN_TYPES[k])) <= 1
        /\ \A j \in 1..Len(Findings) :
              /\ \E k \in 1..Len(VULN_TYPES) : Findings[j].vuln_type = VULN_TYPES[k]
              /\ Findings[j].confidence =
                    Probs[VULN_TO_IDX[Findings[j].vuln_type] + 1]

\* reentrancy at exactly 0.3 was left out of a result that reports
\* integer_overflow at 0.301
C11_Witness ==
    /\ result # None
    /\ Probs[1] = 300
    /\ Probs[3] = 301
    /\ Len(Findings) = 1
    /\ Findings[1].vuln_type = "integer_overflow"
    /\ Findings[1].confidence = 301

\* the three groups of _get_severity as the specification lists them
FirstGroup ==
    {"reentrancy", "access_control", "flash_loan", "oracle_manipulation"}
SecondGroup ==
    {"rug_pull", "honeypot", "integer_overflow", "integer_underflow"}
Tier(c, top, mid, upper, middle, lower) ==
    IF c > top THEN upper ELSE IF c > mid THEN middle ELSE lower
SeverityOfReentrancy ==
    {Findings[j].severity : j \in FindingsOf("reentrancy")}

\* C12: the severity of a finding is a fixed function of its category and
\* confidence: the first group is critical above 0.8, high above 0.6, else
\* medium; the second group is high above 0.8, medium above 0.5, else low;
\* every other category is medium above 0.8, else low.  Reentrancy is
\* critical at 0.85, high at 0.65, medium at 0.4 and not reported at 0.2;
\* the severity is always critical, high, medium or low.
C12_SeverityTable ==
    result # None =>
        /\ \A j \in 1..Len(Findings) :
              LET t == Findings[j].vuln_type
                  c == Findings[j].confidence
              IN /\ Findings[j].severity \in {"critical", "high", "medium", "low"}
                 /\ Findings[j].severity =
                       IF t \in FirstGroup
                       THEN Tier(c, 800, 600, "critical", "high", "medium")
                       ELSE IF t \in SecondGroup
                       THEN Tier(c, 800, 500, "high", "medium", "low")
                       ELSE Tier(c, 800, 800, "medium", "low", "low")
        /\ Probs[1] = 850 => SeverityOfReentrancy = {"critical"}
        /\ Probs[1] = 650 => SeverityOfReentrancy = {"high"}
        /\ Probs[1] = 400 => SeverityOfReentrancy = {"medium"}
        /\ Probs[1] = 200 => SeverityOfReentrancy = {}

\* at exactly 0.8 reentrancy was reported high and integer_overflow medium
C12_Witness ==
    /\ result # None
    /\ Len(Findings) = 2
    /\ Findings[1] = [vuln_type |-> "reentrancy", confidence |-> 800,
                      severity |-> "high"]
    /\ Findings[2] = [vuln_type |-> "integer_overflow", confidence |-> 800,
                      severity |-> "medium"]

\* C13: the findings are ordered by confidence, highest first, and findings
\* of equal confidence keep the canonical category order (the sort is
\* stable).
C13_SortedStable ==
    result # None =>
        \A j \in 1..(Len(Findings) - 1) :
            \/ Findings[j].confidence > Findings[j + 1].confidence
            \/ /\ Findings[j].confidence = Findings[j + 1].confidence
               /\ VULN_TO_IDX[Findings[j].vuln_type]
                     < VULN_TO_IDX[Findings[j + 1].vuln_type]

\* integer_overflow at 0.65 was moved in front of reentrancy at 0.4, which
\* stayed in front of unchecked_call at the same 0.4
C13_Witness ==
    /\ result # None
    /\ Len(Findings) = 3
    /\ Findings[1].vuln_type = "integer_overflow"
    /\ Findings[2].vuln_type = "reentrancy"
    /\ Findings[3].vuln_type = "unchecked_call"
    /\ Findings[2].confidence = Findings[3].confidence

\* round(x) of Python for x = n / d, d > 0: to the nearest integer, a tie
\* to the even one
Round(n, d) ==
    LET q == n \div d
        r == n % d
    IN IF 2 * r > d THEN q + 1
       ELSE IF 2 * r < d THEN q
       ELSE IF q % 2 = 0 THEN q ELSE q + 1

\* C14: the integer risk_score of a result equals round(riskValue * 100) for
\* every raw risk value in [0, 1].
C14_RiskScoreIsRounded ==
    result # None =>
        result[1].risk_score = Round(outputs[1].risk_score * 100, 1000)

\* C15: for every raw risk value in [0, 1] the risk_score is an integer in
\* 0..100, so building the PredictionResult never fails range validation.
C15_RiskScoreInRange ==
    /\ error # "ValidationError"
    /\ outputs # None =>
          /\ outputs[1].risk_score \in 0..1000
          /\ result # None
          /\ result[1].risk_score \in 0..100

\* the raw risk 1.0, the largest one, gave the score 100 and a result
C15_Witness ==
    /\ result # None
    /\ outputs[1].risk_score = 1000
    /\ result[1].risk_score = 100

\* the result the same scoring output gives for a bytecode whose features
\* can be extracted
ResultWithFeatures == PostprocessOutputs(outputs[1], ExampleBytecode)

\* C16: when feature extraction fails (the bytecode is not valid hex) predict
\* still returns a complete PredictionResult: contract_features is None, the
\* other fields are what they are when extraction succeeds, and the failure
\* is not propagated.
C16_ExtractionFailureTolerated ==
    (outputs # None /\ ~ValidInput) =>
        /\ pc = "serving"
        /\ error = NoError
        /\ result # None
        /\ result[1].contract_features = None
        /\ ResultWithFeatures.contract_features # None
        /\ [result[1] EXCEPT !.contract_features =
                                ResultWithFeatures.contract_features]
              = ResultWithFeatures

\* 0x6g is not hex: its result has a finding and an embedding but no
\* contract features
C16_Witness ==
    /\ bytecode_hex = <<"0", "x", "6", "g">>
    /\ result # None
    /\ result[1].contract_features = None
    /\ Len(result[1].vulnerabilities) = 3
    /\ result[1].embedding = Some(<<1, 0>>)

(***************************************************************************)
(* The service as a whole: predict, predict_batch, get_embedding and       *)
(* similarity on one loaded engine.  The engine is in eval mode, so what   *)
(* it computes is a function of the tensor it is given; a similarity is    *)
(* kept exact as num / sqrt(den_sq), and den_sq = 0 is a division by zero. *)
(***************************************************************************)
RECURSIVE DotFrom(_, _, _)
DotFrom(a, b, k) ==
    IF k > Len(a) THEN 0 ELSE a[k] * b[k] + DotFrom(a, b, k + 1)

\* np.dot(vec1, vec2) and np.linalg.norm(vec) squared
Dot(a, b) == DotFrom(a, b, 1)
NormSq(a) == Dot(a, a)

\* line 257: norm == 0
NormIsZeroNever(vec) == FALSE
NormIsZero(vec) == NormSq(vec) = 0

\* return 0.0
ZeroSimilarity == [num |-> 0, den_sq |-> 1]

\* similarity lines 245-260 on the two embeddings
SimilarityOf(emb1, emb2) ==
    IF emb1 = <<>> \/ emb2 = <<>> THEN ZeroSimilarity
    ELSE IF NormIsZero(emb1) \/ NormIsZero(emb2) THEN ZeroSimilarity
    ELSE [num |-> Dot(emb1, emb2), den_sq |-> NormSq(emb1) * NormSq(emb2)]

\* get_embedding line 234: result.embedding or []
EmbeddingOrEmpty(res) ==
    IF res.embedding = None THEN <<>> ELSE res.embedding[1]

\* a contract of one CALL and a string that is not hex
ServiceInputs == {<<"0", "x", "f", "1">>, <<"0", "x", "6", "g">>}
MaxBatch == 2
BatchInputs == UNION {[1..n -> ServiceInputs] : n \in 0..MaxBatch}

\* the functions an engine may compute on the tensors of ServiceInputs: one
\* embedding of EmbeddingGrid per tensor, or the empty embedding of a model
\* whose hidden_dim is 0
ServiceTensors(L) == {PreprocessBytecode(h, L) : h \in ServiceInputs}
ServiceOutputs == {[BaseOutput EXCEPT !.features = e] : e \in EmbeddingGrid}
EmptyEmbeddingOutput == [BaseOutput EXCEPT !.features = <<>>]
ScoringFunctions(L) ==
    [ServiceTensors(L) -> ServiceOutputs]
        \cup [ServiceTensors(L) -> {EmptyEmbeddingOutput}]

ServiceConfigs == [use_onnx : BOOLEAN, suffix : {".onnx", ".pt"}]

\* __init__ with any flag and either kind of model file
InitService ==
    /\ \E cfg \in ServiceConfigs :
          /\ config = Some(cfg)
          /\ model = LoadEngine(cfg.use_onnx, cfg.suffix).model
          /\ onnx_session = LoadEngine(cfg.use_onnx, cfg.suffix).onnx_session
    /\ max_seq_length = MaxSeqLen
    /\ scoring \in ScoringFunctions(max_seq_length)
    /\ bytecode_hex = <<>>
    /\ sample = BlankSample
    /\ pc = "serving"
    /\ OfflineIdle
    /\ InitCommon

\* self.predict(bytecode_hex) as the other operations call it: the engine
\* that scored and what predict handed back
PredictOf(hex) ==
    LET tn == PreprocessBytecode(hex, max_seq_length)
    IN [engine |-> ScoringCall(onnx_session, tn).engine,
        outcome |-> PredictOutcome(scoring[tn], hex)]

\* predict on the loaded engine
ServicePredict ==
    /\ pc = "serving"
    /\ calls < MaxCalls
    /\ \E hex \in ServiceInputs :
          /\ PredictCall(hex, scoring[PreprocessBytecode(hex, max_seq_length)])
          /\ request' = Some([op |-> "predict", args |-> <<hex>>])
          /\ response' = result'
          /\ engine_log' = <<scoring_call'[1].engine>>
    /\ calls' = calls + 1
    /\ UNCHANGED <<max_seq_length, sample, ds_item, stream_item, model,
                   onnx_session, config, scoring>>
    /\ UNCHANGED <<extractVars, offlineVars>>

\* [self.predict(bc) for bc in bytecodes]
BatchResultsReversed(bytecodes) ==
    [k \in 1..Len(bytecodes) |-> PredictOf(bytecodes[Len(bytecodes) + 1 - k])]
BatchResults(bytecodes) ==
    [k \in 1..Len(bytecodes) |-> PredictOf(bytecodes[k])]

\* the calls of an operation up to and including the first that raised
Completed(rs) ==
    LET failed == {k \in 1..Len(rs) : rs[k].outcome.error # NoError}
    IN IF failed = {} THEN rs
       ELSE SubSeq(rs, 1, CHOOSE k \in failed : \A m \in failed : k <= m)

\* the state an operation built from predict calls leaves: its return value
\* when no call raised, else the exception of the call that did
Returns(op, args, rs, value) ==
    /\ request' = Some([op |-> op, args |-> args])
    /\ engine_log' = [k \in 1..Len(Completed(rs)) |-> rs[k].engine]
    /\ IF Completed(rs) = rs /\ (rs = <<>> \/ rs[Len(rs)].outcome.error = NoError)
       THEN /\ response' = Some(value)
            /\ error' = error
            /\ pc' = pc
       ELSE /\ response' = None
            /\ error' = rs[Len(Completed(rs))].outcome.error
            /\ pc' = "raised"
    /\ calls' = calls + 1
    /\ UNCHANGED <<bytecode_hex, model, onnx_session, scoring_call, outputs,
                   result, config, scoring>>
    /\ UNCHANGED <<extractVars, encodeVars, offlineVars>>

\* predict_batch(bytecodes)
PredictBatch ==
    /\ pc = "serving"
    /\ calls < MaxCalls
    /\ \E bytecodes \in BatchInputs :
          \E rs \in {BatchResults(bytecodes)} :
              Returns("predict_batch", bytecodes, rs,
                      [k \in 1..Len(rs) |-> rs[k].outcome.result[1]])

\* get_embedding(bytecode_hex)
GetEmbedding ==
    /\ pc = "serving"
    /\ calls < MaxCalls
    /\ \E hex \in ServiceInputs :
          \E r \in {PredictOf(hex)} :
              Returns("get_embedding", <<hex>>, <<r>>,
                      EmbeddingOrEmpty(r.outcome.result[1]))

\* similarity(bytecode1, bytecode2)
Similarity ==
    /\ pc = "serving"
    /\ calls < MaxCalls
    /\ \E bytecode1 \in ServiceInputs, bytecode2 \in ServiceInputs :
          \E r1 \in {PredictOf(bytecode1)}, r2 \in {PredictOf(bytecode2)} :
              Returns("similarity", <<bytecode1, bytecode2>>, <<r1, r2>>,
                      SimilarityOf(EmbeddingOrEmpty(r1.outcome.result[1]),
                                   EmbeddingOrEmpty(r2.outcome.result[1])))

NextService == ServicePredict \/ PredictBatch \/ GetEmbedding \/ Similarity

SpecService == InitService /\ [][NextService]_vars

\* the last call on the service and the embeddings the engine computes for
\* its arguments
Returned(op) == request # None /\ request[1].op = op /\ response # None
ArgEmbedding(k) ==
    scoring[PreprocessBytecode(request[1].args[k], max_seq_length)].features
HasNoDirection(emb) == \A k \in 1..Len(emb) : emb[k] = 0

\* C17: similarity returns exactly 0.0 whenever either embedding has zero
\* norm or is empty; it never divides by zero and never returns NaN.
C17_ZeroWhenNoDirection ==
    Returned("similarity") =>
        /\ response[1].den_sq > 0
        /\ (HasNoDirection(ArgEmbedding(1)) \/ HasNoDirection(ArgEmbedding(2)))
              => response[1].num = 0

\* the similarity of the zero embedding <<0, 0>> and <<1, 0>> was 0.0
C17_Witness ==
    /\ Returned("similarity")
    /\ ArgEmbedding(1) = <<0, 0>>
    /\ ArgEmbedding(2) = <<1, 0>>
    /\ response[1] = ZeroSimilarity

\* C18: the similarity lies in [0, 1] for all embeddings, including those
\* whose dot product is negative.
C18_SimilarityInUnitInterval ==
    Returned("similarity") =>
        /\ response[1].den_sq > 0
        /\ response[1].num >= 0
        /\ response[1].num * response[1].num <= response[1].den_sq

\* what predict returns for a bytecode alone
PredictAlone(hex) ==
    PredictOutcome(scoring[PreprocessBytecode(hex, max_seq_length)], hex).result

\* C19: predict_batch returns a list as long as its input whose i-th element
\* is the prediction for the i-th bytecode: what predict returns for that
\* bytecode alone, whatever the other items and their order.
C19_BatchIsElementwise ==
    (request # None /\ request[1].op = "predict_batch") =>
        /\ response # None
        /\ Len(response[1]) = Len(request[1].args)
        /\ \A k \in 1..Len(request[1].args) :
              Some(response[1][k]) = PredictAlone(request[1].args[k])

\* a later call took the invalid string before the contract and returned
\* their two different results in that order
C19_Witness ==
    /\ calls = MaxCalls
    /\ Returned("predict_batch")
    /\ request[1].args = <<<<"0", "x", "6", "g">>, <<"0", "x", "f", "1">>>>
    /\ response[1][1].contract_features = None
    /\ response[1][2].contract_features # None

\* the engine the constructor loaded
Loaded == IF onnx_session # None THEN "onnx" ELSE "pytorch"

\* C20: after construction exactly one engine is loaded (the ONNX session
\* when use_onnx is set and the model path ends in .onnx, else the PyTorch
\* model; the other handle is None); over any sequence of predict,
\* predict_batch, get_embedding and similarity calls every result is computed
\* by that one engine, and the selection never changes.
C20_OneEngine ==
    /\ [](/\ (model = None) # (onnx_session = None)
          /\ (onnx_session # None)
                <=> (config[1].use_onnx /\ config[1].suffix = ".onnx")
          /\ \A k \in 1..Len(engine_log) : engine_log[k] = Loaded
          /\ scoring_call # None => scoring_call[1].engine = Loaded)
    /\ [][model' = model /\ onnx_session' = onnx_session]_vars

\* a service asked for ONNX on a checkpoint loaded the PyTorch model and,
\* after an earlier call, computed a similarity with two PyTorch predictions
C20_Witness ==
    /\ calls = MaxCalls
    /\ config = Some([use_onnx |-> TRUE, suffix |-> ".pt"])
    /\ model # None
    /\ Returned("similarity")
    /\ engine_log = <<"pytorch", "pytorch">>

(***************************************************************************)
(* Labels, the category table, the split, entropy, the two engines.        *)
(***************************************************************************)
\* the label vectors the two datasets produced for the sample
LabelVectors ==
    (IF ds_item = None THEN {} ELSE {ds_item[1].vulnerabilities})
        \cup (IF stream_item = None THEN {} ELSE {stream_item[1].vulnerabilities})
Named(t) == \E j \in 1..Len(sample.labels) : sample.labels[j] = t

\* C21: the label vector of a sample has length K and entry i is 1.0 exactly
\* when some label of the sample names VULN_TYPES[i], else 0.0; a label
\* whose name is not in the table changes no entry and raises no error, and
\* a sample with no labels gives the all-zero vector.
C21_LabelVector ==
    /\ \A v \in LabelVectors :
          /\ DOMAIN v = 1..Len(VULN_TYPES)
          /\ \A k \in 1..Len(VULN_TYPES) :
                v[k] = IF Named(VULN_TYPES[k]) THEN 1 ELSE 0
    /\ pc # "raised"
    /\ pc \notin {"getitem", "process_row"} => Cardinality(LabelVectors) = 1

\* the labels honeypot, bogus, reentrancy, honeypot gave, in both datasets,
\* the vector with 1.0 at reentrancy and honeypot only
C21_Witness ==
    /\ sample.labels = <<"honeypot", "bogus", "reentrancy", "honeypot">>
    /\ ds_item # None
    /\ stream_item # None
    /\ Cardinality(LabelVectors) = 1
    /\ \A v \in LabelVectors :
          {k \in 1..Len(VULN_TYPES) : v[k] = 1} = {1, 11}

\* the findings the result interpreter makes of a label vector read as
\* probabilities
InterpretedNames(v) ==
    LET fs == ReportedFrom([k \in 1..Len(VULN_TYPES) |-> 1000 * v[k]], 1)
    IN {fs[j].vuln_type : j \in 1..Len(fs)}
TableNames == {VULN_TYPES[k] : k \in 1..Len(VULN_TYPES)}

\* C22: VULN_TO_IDX is a bijection between the names of VULN_TYPES and the
\* indices 0..K-1: it has as many entries as VULN_TYPES and
\* VULN_TYPES[VULN_TO_IDX[v]] = v for every name, so the label encoder and
\* the result interpreter index the same category at the same position.
C22_TableIsBijection ==
    /\ Cardinality(DOMAIN VULN_TO_IDX) = Len(VULN_TYPES)
    /\ {VULN_TO_IDX[v] : v \in DOMAIN VULN_TO_IDX} = 0..(Len(VULN_TYPES) - 1)
    /\ \A v \in DOMAIN VULN_TO_IDX : VULN_TYPES[VULN_TO_IDX[v] + 1] = v
    /\ \A v \in LabelVectors :
          InterpretedNames(v) = {t \in TableNames : Named(t)}

\* the vector encoded from the labels reentrancy and honeypot was read back
\* by the interpreter as exactly those two categories
C22_Witness ==
    /\ stream_item # None
    /\ Named("bogus")
    /\ \A v \in LabelVectors : InterpretedNames(v) = {"reentrancy", "honeypot"}

(***************************************************************************)
(* create_train_val_split (dataset.py).  The split index is computed in    *)
(* binary64: a natural number is a sequence of bits, least significant     *)
(* first, and a float is m * 2^e with m of at most 53 bits.                *)
(***************************************************************************)
Rest(a) == IF a = <<>> THEN <<>> ELSE Tail(a)
Bit(a, k) == IF k <= Len(a) THEN a[k] ELSE 0

RECURSIVE Trim(_)
Trim(a) ==
    IF a = <<>> \/ a[Len(a)] = 1 THEN a ELSE Trim(SubSeq(a, 1, Len(a) - 1))

RECURSIVE AddWithCarry(_, _, _)
AddWithCarry(a, b, c) ==
    IF a = <<>> /\ b = <<>> THEN (IF c = 1 THEN <<1>> ELSE <<>>)
    ELSE LET t == Bit(a, 1) + Bit(b, 1) + c
         IN <<t % 2>> \o AddWithCarry(Rest(a), Rest(b), t \div 2)
BitsAdd(a, b) == AddWithCarry(a, b, 0)

\* a - b for a >= b
RECURSIVE SubWithBorrow(_, _, _)
SubWithBorrow(a, b, c) ==
    IF a = <<>> THEN <<>>
    ELSE LET d == Bit(a, 1) - Bit(b, 1) - c
         IN <<(d + 2) % 2>>
              \o SubWithBorrow(Rest(a), Rest(b), IF d < 0 THEN 1 ELSE 0)
BitsSub(a, b) == Trim(SubWithBorrow(a, b, 0))

ShiftLeft(a, k) == IF a = <<>> THEN <<>> ELSE Zeros(k) \o a

\* a * b, adding a shifted copy of a for each bit of b
RECURSIVE MulByBits(_, _)
MulByBits(a, b) ==
    IF b = <<>> THEN <<>>
    ELSE BitsAdd(IF b[1] = 1 THEN a ELSE <<>>,
                 ShiftLeft(MulByBits(a, Tail(b)), 1))
BitsMul(a, b) == IF Len(a) < Len(b) THEN MulByBits(b, a) ELSE MulByBits(a, b)

RECURSIVE BitsOfNat(_)
BitsOfNat(n) == IF n = 0 THEN <<>> ELSE <<n % 2>> \o BitsOfNat(n \div 2)

RECURSIVE NatOfBits(_)
NatOfBits(a) == IF a = <<>> THEN 0 ELSE a[1] + 2 * NatOfBits(Tail(a))

\* the bits of a hexadecimal numeral
NibbleBit(d, j) == IF j = 0 THEN d % 2 ELSE IF j = 1 THEN (d \div 2) % 2
                   ELSE IF j = 2 THEN (d \div 4) % 2 ELSE (d \div 8) % 2
BitsOfHex(h) ==
    Trim([k \in 1..(4 * Len(h)) |->
            NibbleBit(DigitVal(h[Len(h) - ((k - 1) \div 4)]), (k - 1) % 4)])

\* the significand width of binary64
Precision == 53

\* round an exact value to binary64, to nearest and ties to even
RoundToDouble(x) ==
    LET drop == Len(x.m) - Precision
    IN IF drop <= 0 THEN x
       ELSE LET kept == SubSeq(x.m, drop + 1, Len(x.m))
                half == x.m[drop] = 1
                sticky == \E k \in 1..(drop - 1) : x.m[k] = 1
                up == half /\ (sticky \/ kept[1] = 1)
            IN [m |-> IF up THEN BitsAdd(kept, <<1>>) ELSE kept,
                e |-> x.e + drop]

\* float(n), x - y for x >= y, x * y, and int(x) for x >= 0
FloatOfInt(n) == RoundToDouble([m |-> BitsOfNat(n), e |-> 0])
FloatSub(x, y) ==
    LET e == Min(x.e, y.e)
    IN RoundToDouble([m |-> BitsSub(ShiftLeft(x.m, x.e - e),
                                    ShiftLeft(y.m, y.e - e)),
                      e |-> e])
FloatMul(x, y) == RoundToDouble([m |-> BitsMul(x.m, y.m), e |-> x.e + y.e])
IntOfFloat(x) ==
    IF x.e >= 0 THEN NatOfBits(ShiftLeft(x.m, x.e))
    ELSE IF 0 - x.e >= Len(x.m) THEN 0
    ELSE NatOfBits(SubSeq(x.m, 1 - x.e, Len(x.m)))

\* line 274: int(len(samples) * (1 - val_ratio))
SplitIdx(n, ratio) ==
    IntOfFloat(FloatMul(FloatOfInt(n), FloatSub(FloatOfInt(1), ratio)))

\* the ratios 0.1 (the default), 0.2 (tests/test_dataset.py), 0.3, 0.5 and
\* 0.8 as binary64 values: float.hex gives 0x1.999999999999ap-4 for 0.1
ValRatios ==
    {[tenths |-> 1, e |-> 0 - 56,
      hex |-> <<"1", "9", "9", "9", "9", "9", "9", "9", "9", "9", "9", "9", "9", "a">>],
     [tenths |-> 2, e |-> 0 - 55,
      hex |-> <<"1", "9", "9", "9", "9", "9", "9", "9", "9", "9", "9", "9", "9", "a">>],
     [tenths |-> 3, e |-> 0 - 54,
      hex |-> <<"1", "3", "3", "3", "3", "3", "3", "3", "3", "3", "3", "3", "3", "3">>],
     [tenths |-> 5, e |-> 0 - 53,
      hex |-> <<"1", "0", "0", "0", "0", "0", "0", "0", "0", "0", "0", "0", "0", "0">>],
     [tenths |-> 8, e |-> 0 - 53,
      hex |-> <<"1", "9", "9", "9", "9", "9", "9", "9", "9", "9", "9", "9", "9", "a">>]}
DoubleOf(v) == [m |-> BitsOfHex(v.hex), e |-> v.e]

\* most samples in a list to split
MaxSamples == 100

\* random.shuffle under a fixed seed is one permutation for each length:
\* the identity, the reversal or a rotation stand for it
Shuffles(n) ==
    {[k \in 1..n |-> k], [k \in 1..n |-> n + 1 - k],
     [k \in 1..n |-> (k % n) + 1]}

InitSplit ==
    /\ \E n \in 0..MaxSamples : samples = [k \in 1..n |-> k]
    /\ \E v \in ValRatios : val_ratio = Some(v)
    /\ split = None
    /\ bytecode_hex = <<>>
    /\ pc = "split"
    /\ max_seq_length = 0
    /\ sample = BlankSample
    /\ model = None
    /\ onnx_session = None
    /\ config = None
    /\ scoring = <<>>
    /\ NoEntropy
    /\ NoTraining
    /\ NoShards
    /\ InitCommon

\* create_train_val_split(samples, val_ratio): shuffle in place, cut at the
\* split index
CreateTrainValSplit ==
    /\ pc = "split"
    /\ \E perm \in Shuffles(Len(samples)) :
          \E idx \in {SplitIdx(Len(samples), DoubleOf(val_ratio[1]))} :
              LET shuffled == [k \in 1..Len(samples) |-> samples[perm[k]]]
              IN /\ samples' = shuffled
                 /\ split' = Some([train |-> SubSeq(shuffled, 1, idx),
                                   val |-> SubSeq(shuffled, idx + 1,
                                                  Len(shuffled))])
    /\ pc' = "split_done"
    /\ UNCHANGED <<bytecode_hex, error, val_ratio>>
    /\ UNCHANGED <<extractVars, encodeVars, predictVars, serviceVars,
                   entropyVars, trainVars, shardVars>>

NextSplit == CreateTrainValSplit

SpecSplit == InitSplit /\ [][NextSplit]_vars

\* train and val together hold every sample exactly once
SplitIsPartition ==
    split # None =>
        /\ Len(split[1].train) + Len(split[1].val) = Len(samples)
        /\ \A c \in 1..Len(samples) :
              Cardinality({k \in 1..Len(split[1].train) : split[1].train[k] = c})
                + Cardinality({k \in 1..Len(split[1].val) : split[1].val[k] = c})
                = 1

\* C23: create_train_val_split of n samples with ratio val_ratio returns
\* (train, val) with len(train) = floor(n * (1 - val_ratio)) and
\* len(val) = n - len(train) (100 samples at 0.2 give 80 and 20), and train
\* and val together contain every input sample exactly once.
C23_SplitSizes ==
    split # None =>
        /\ Len(split[1].train)
              = (Len(samples) * (10 - val_ratio[1].tenths)) \div 10
        /\ Len(split[1].val) = Len(samples) - Len(split[1].train)
        /\ SplitIsPartition

(***************************************************************************)
(* _calculate_entropy (features.py) on its own.                            *)
(***************************************************************************)
\* longest byte string enumerated in full over EntropyAlphabet
MaxEntropyBytes == 4
\* largest number of copies of every byte value in one input
MaxCopies == 2

EntropyAlphabet == {0, 99, 255}

\* every byte value once
AllByteValues == [k \in 1..256 |-> k - 1]

Repeated(b, r) == [k \in 1..(r * Len(b)) |-> b[((k - 1) % Len(b)) + 1]]

\* short strings, every byte value equally often, and every byte value with
\* one of them more frequent than the others
EntropyInputs ==
    ByteSeqs(EntropyAlphabet, MaxEntropyBytes)
        \cup {Repeated(AllByteValues, r) : r \in 1..MaxCopies}
        \cup {AllByteValues \o [k \in 1..8 |-> 99]}

InitEntropy ==
    /\ data \in EntropyInputs
    /\ entropy = None
    /\ bytecode_hex = <<>>
    /\ pc = "entropy"
    /\ max_seq_length = 0
    /\ sample = BlankSample
    /\ model = None
    /\ onnx_session = None
    /\ config = None
    /\ scoring = <<>>
    /\ NoSplit
    /\ NoTraining
    /\ NoShards
    /\ InitCommon

\* _calculate_entropy(data)
CalculateEntropyCall ==
    /\ pc = "entropy"
    /\ entropy' = Some(CalculateEntropy(data))
    /\ pc' = "entropy_done"
    /\ UNCHANGED <<bytecode_hex, error, data>>
    /\ UNCHANGED <<extractVars, encodeVars, predictVars, serviceVars,
                   splitVars, trainVars, shardVars>>

NextEntropy == CalculateEntropyCall

SpecEntropy == InitEntropy /\ [][NextEntropy]_vars

\* the byte values that occur in b
ByteValues(b) == {b[k] : k \in 1..Len(b)}

Occurrences(b, v) == Cardinality({k \in 1..Len(b) : b[k] = v})

\* sum of c * log2(c) over the frequencies c of the values from..to that
\* occur in b, in millionths, as an interval
RECURSIVE SumCLogC(_, _, _)
SumCLogC(b, from, to) ==
    IF from = to
    THEN LET c == Occurrences(b, from)
         IN IF c = 0 THEN ZeroEntropy
            ELSE [lo |-> c * Log2(c).lo, hi |-> c * Log2(c).hi]
    ELSE LET mid == (from + to) \div 2
         IN IntervalSum(SumCLogC(b, from, mid), SumCLogC(b, mid + 1, to))

\* the Shannon entropy of the byte-value frequencies of a non-empty b,
\* written as log2(n) - (1/n) * sum of c * log2(c), in millionths, as an
\* interval
Shannon(b) ==
    LET n == Len(b)
        sum == SumCLogC(b, 0, 255)
    IN [lo |-> Log2(n).lo - (0 - ((0 - sum.hi) \div n)),
        hi |-> Log2(n).hi - (sum.lo \div n)]

\* C24: the value _calculate_entropy returns is the Shannon entropy of the
\* byte-value frequencies of its argument; it lies between 0 and 8 bits, and
\* it is exactly 0 for the empty byte string and for a byte string that
\* repeats one byte value.
C24_EntropyIsShannon ==
    entropy # None =>
        /\ data # <<>> =>
              /\ entropy[1].lo <= Shannon(data).hi
              /\ Shannon(data).lo <= entropy[1].hi
        /\ entropy[1].lo >= 0
        /\ entropy[1].hi <= 8000000
        /\ Cardinality(ByteValues(data)) <= 1 => entropy[1] = ZeroEntropy

\* every byte value occurs equally often and the entropy is 8 bits exactly
C24_Witness ==
    /\ pc = "entropy_done"
    /\ Len(data) = 512
    /\ entropy = Some([lo |-> 8000000, hi |-> 8000000])

(***************************************************************************)
(* The input of the scoring function (service.py, model.py, training.py).  *)
(***************************************************************************)
\* forward lines 137-153 on row b of a scoring call: the positions the
\* transformer attends to and the pooling averages.  With a mask they are
\* the positions whose mask is set; without one src_key_padding_mask is None
\* and the pooling is encoded.mean(dim=1), over every position.
ValidPositions(call, b) ==
    IF call.attention_mask = None
    THEN 1..Len(call.bytecode[b])
    ELSE {k \in 1..Len(call.bytecode[b]) : call.attention_mask[1][b][k] # 0}

\* the positions of a row of tokens that hold a byte, not padding
BytePositions(row) == {k \in 1..Len(row) : row[k] # InfPadToken}

\* C25: on either engine the scoring function is evaluated on the encoded
\* sequence together with the validity mask that is false exactly at the
\* padding positions, so that attention and pooling leave the padding out.
C25_SameScoringInput ==
    scoring_call # None =>
        /\ scoring_call[1].bytecode = inf_tensor[1]
        /\ \A b \in 1..Len(scoring_call[1].bytecode) :
              ValidPositions(scoring_call[1], b)
                  = BytePositions(scoring_call[1].bytecode[b])

\* Trainer._train_epoch, lines 160-168, on a batch of the one item:
\* outputs = self.model(bytecode, attention_mask)
TrainScoringCall(item) ==
    [engine |-> "pytorch", bytecode |-> <<item.bytecode>>,
     attention_mask |-> Some(<<item.attention_mask>>)]

\* the sample and the parquet row that hold the bytecode of the request
SampleOfRequest == [BlankSample EXCEPT !.bytecode = bytecode_hex]

\* a scoring call leaves out exactly the padding of its row
MaskIsValidity(call) ==
    ValidPositions(call, 1) = BytePositions(call.bytecode[1])

\* C26: training and inference agree: the two datasets and the service
\* encode a bytecode string to the same sequence of length max_len, and the
\* scoring function is called with the validity mask by the Trainer and by
\* InferenceService.predict.
C26_TrainingMatchesInference ==
    scoring_call # None =>
        LET ds == GetItem(SampleOfRequest, max_seq_length).item[1]
            st == ProcessRow(RowOf(SampleOfRequest), max_seq_length).item[1]
        IN /\ Len(inf_tensor[1][1]) = max_seq_length
           /\ ds.bytecode = inf_tensor[1][1]
           /\ st.bytecode = inf_tensor[1][1]
           /\ MaskIsValidity(TrainScoringCall(ds))
           /\ MaskIsValidity(TrainScoringCall(st))
           /\ MaskIsValidity(scoring_call[1])

(***************************************************************************)
(* function_selectors (features.py).                                       *)
(***************************************************************************)
\* the indices (from 1) of the bytes 0x63 of b that have four bytes after
\* them
PushFourOccurrences(b) == {k \in 1..(Len(b) - 4) : b[k] = 99}

\* '0x' and the four bytes after the byte at k, in hex
SelectorAfter(b, k) == <<"0", "x">> \o Render(SubSeq(b, k + 1, k + 4), FALSE)

\* C27: function_selectors holds, once each, the selector '0x' + the next
\* four bytes of every byte 0x63 of the bytecode that has four bytes after
\* it, decoded as PUSH4 or not, overlapping another occurrence or not, and
\* nothing else.
C27_SelectorsOfEveryOccurrence ==
    pc = "done" =>
        features[1].function_selectors
            = {SelectorAfter(bytecode, k) : k \in PushFourOccurrences(bytecode)}

(***************************************************************************)
(* Trainer.train (training.py).  The losses of an epoch are the results of *)
(* _train_epoch and _validate_epoch, which the model leaves open.          *)
(***************************************************************************)
\* largest num_epochs of a training configuration
MaxEpochs == 3
\* largest save_every of a training configuration
MaxSaveEvery == 2

\* the values _train_epoch and _validate_epoch may return
TrainLossGrid == {4, 6}
ValLossGrid == {1, 2, 3}

\* TrainingConfig: both fields are unconstrained integers
TrainingConfigs == [num_epochs : 0..MaxEpochs, save_every : 0..MaxSaveEvery]

\* Trainer.__init__ and the head of train: empty loss lists, best_val_loss
\* infinite, no checkpoint yet
InitTrain ==
    /\ train_config \in {Some(c) : c \in TrainingConfigs}
    /\ val_loader \in {None, Some("DataLoader")}
    /\ epoch = 0
    /\ train_losses = <<>>
    /\ val_losses = <<>>
    /\ best_val_loss = Infinity
    /\ checkpoints = <<>>
    /\ bytecode_hex = <<>>
    /\ pc = "train"
    /\ max_seq_length = 0
    /\ sample = BlankSample
    /\ model = None
    /\ onnx_session = None
    /\ config = None
    /\ scoring = <<>>
    /\ NoSplit
    /\ NoEntropy
    /\ NoShards
    /\ InitCommon

\* the mutation of IsBetter that also takes an equal loss
IsBetterOrEqual(val_loss, best) == best = Infinity \/ val_loss <= best[1]

\* val_loss < self.best_val_loss
IsBetter(val_loss, best) == best = Infinity \/ val_loss < best[1]

\* _save_checkpoint(path, epoch) with the trainer's lists as they are
Checkpoint(path, ep, tls, vls, best) ==
    [path |-> path, epoch |-> ep, train_losses |-> tls, val_losses |-> vls,
     best_val_loss |-> best]

\* one iteration of the loop of train, lines 107-137
TrainEpoch ==
    /\ pc = "train"
    /\ epoch < train_config[1].num_epochs
    /\ \E train_loss \in TrainLossGrid, val_loss \in ValLossGrid :
          LET validated == val_loader # None
              improved == validated /\ IsBetter(val_loss, best_val_loss)
              tls == Append(train_losses, train_loss)
              vls == IF validated THEN Append(val_losses, val_loss)
                     ELSE val_losses
              best == IF improved THEN Some(val_loss) ELSE best_val_loss
              saved == IF improved
                       THEN Append(checkpoints,
                                   Checkpoint("best_model.pt", epoch, tls, vls, best))
                       ELSE checkpoints
          IN /\ train_losses' = tls
             /\ val_losses' = vls
             /\ best_val_loss' = best
             /\ IF train_config[1].save_every = 0
                THEN /\ checkpoints' = saved
                     /\ epoch' = epoch
                     /\ pc' = "raised"
                     /\ error' = "ZeroDivisionError"
                ELSE /\ checkpoints' =
                          IF (epoch + 1) % train_config[1].save_every = 0
                          THEN Append(saved,
                                      Checkpoint("checkpoint_epoch_" \o Dec(epoch + 1)
                                                     \o ".pt",
                                                 epoch, tls, vls, best))
                          ELSE saved
                     /\ epoch' = epoch + 1
                     /\ pc' = pc
                     /\ error' = error
    /\ UNCHANGED <<bytecode_hex, train_config, val_loader>>
    /\ UNCHANGED <<extractVars, encodeVars, predictVars, serviceVars, splitVars,
                   entropyVars, shardVars>>

\* lines 139-150: the loop is over, the final save, the return
TrainFinish ==
    /\ pc = "train"
    /\ epoch >= train_config[1].num_epochs
    /\ checkpoints' =
          Append(checkpoints,
                 Checkpoint("final_model.pt", train_config[1].num_epochs - 1,
                            train_losses, val_losses, best_val_loss))
    /\ pc' = "trained"
    /\ UNCHANGED <<bytecode_hex, error, train_config, val_loader, epoch,
                   train_losses, val_losses, best_val_loss>>
    /\ UNCHANGED <<extractVars, encodeVars, predictVars, serviceVars, splitVars,
                   entropyVars, shardVars>>

NextTrain == TrainEpoch \/ TrainFinish

SpecTrain == InitTrain /\ [][NextTrain]_vars

\* the smallest element of a non-empty sequence of losses
MinLoss(ls) == CHOOSE m \in {ls[k] : k \in 1..Len(ls)} : \A k \in 1..Len(ls) : m <= ls[k]

\* the epochs (from 0) whose validation loss is lower than every earlier one
RecordEpochs ==
    {e \in 0..(Len(val_losses) - 1) :
        \A d \in 0..(e - 1) : val_losses[e + 1] < val_losses[d + 1]}

\* the positions of the checkpoints written to a path
SavesTo(path) == {k \in 1..Len(checkpoints) : checkpoints[k].path = path}

C28_AfterEveryEpoch ==
    (train_config # None /\ val_loader # None) =>
        /\ best_val_loss = IF val_losses = <<>> THEN Infinity
                           ELSE Some(MinLoss(val_losses))
        /\ Len(train_losses) = Len(val_losses)
        /\ pc = "train" => Len(val_losses) = epoch
        /\ {checkpoints[k].epoch : k \in SavesTo("best_model.pt")} = RecordEpochs
        /\ Cardinality(SavesTo("best_model.pt")) = Cardinality(RecordEpochs)
        /\ \A k \in SavesTo("best_model.pt") :
              checkpoints[k].val_losses
                  = SubSeq(val_losses, 1, checkpoints[k].epoch + 1)
        /\ SavesTo("final_model.pt")
              = IF pc = "trained" THEN {Len(checkpoints)} ELSE {}
        /\ pc = "trained" =>
              /\ Len(val_losses) = train_config[1].num_epochs
              /\ checkpoints[Len(checkpoints)].epoch = train_config[1].num_epochs - 1

C28_OneLossEach ==
    (val_loader # None /\ (train_losses' # train_losses \/ val_losses' # val_losses))
        => /\ \E l \in TrainLossGrid : train_losses' = Append(train_losses, l)
           /\ \E l \in ValLossGrid : val_losses' = Append(val_losses, l)

MaxFiles == 3
\* largest number of workers
MaxWorkers == 3

\* the mutation of RangeEnd that gives the last worker no remainder
RangeEndNoRemainder(id, n_workers, n_files) ==
    id * (n_files \div n_workers) + (n_files \div n_workers)

\* lines 143-145: per_worker, start, and end for worker id
RangeStart(id, n_workers, n_files) == id * (n_files \div n_workers)
RangeEnd(id, n_workers, n_files) ==
    IF id < n_workers - 1
    THEN RangeStart(id, n_workers, n_files) + (n_files \div n_workers)
    ELSE n_files

\* files[start:end] for 0 <= start, end <= len(files)
Slice(s, start, end) == SubSeq(s, start + 1, end)

\* __init__ has found at least one file; the workers are about to iterate
InitShard ==
    /\ \E f \in 1..MaxFiles : files = [k \in 1..f |-> k]
    /\ num_workers \in 1..MaxWorkers
    /\ worker_pc = [w \in 1..num_workers |-> "iter"]
    /\ worker_files = [w \in 1..num_workers |-> <<>>]
    /\ file_reads = [w \in 1..num_workers |-> <<>>]
    /\ bytecode_hex = <<>>
    /\ pc = "iterating"
    /\ max_seq_length = 0
    /\ sample = BlankSample
    /\ model = None
    /\ onnx_session = None
    /\ config = None
    /\ scoring = <<>>
    /\ NoSplit
    /\ NoEntropy
    /\ NoTraining
    /\ InitCommon

\* lines 138-146 in worker w: the worker's slice of the files
WorkerIter(w) ==
    /\ worker_pc[w] = "iter"
    /\ worker_files' =
          [worker_files EXCEPT
              ![w] = Slice(files, RangeStart(w - 1, num_workers, Len(files)),
                           RangeEnd(w - 1, num_workers, Len(files)))]
    /\ worker_pc' = [worker_pc EXCEPT ![w] = "files"]
    /\ UNCHANGED <<files, num_workers, file_reads>>
    /\ UNCHANGED <<bytecode_hex, pc, error>>
    /\ UNCHANGED <<extractVars, encodeVars, predictVars, serviceVars, splitVars,
                   entropyVars, trainVars>>

\* lines 148-155 in worker w: the next file is read and its rows are
\* yielded, or the loop is over
WorkerRead(w) ==
    /\ worker_pc[w] = "files"
    /\ IF Len(file_reads[w]) < Len(worker_files[w])
       THEN /\ file_reads' =
                  [file_reads EXCEPT
                      ![w] = Append(@, worker_files[w][Len(file_reads[w]) + 1])]
            /\ worker_pc' = worker_pc
       ELSE /\ file_reads' = file_reads
            /\ worker_pc' = [worker_pc EXCEPT ![w] = "done"]
    /\ UNCHANGED <<files, num_workers, worker_files>>
    /\ UNCHANGED <<bytecode_hex, pc, error>>
    /\ UNCHANGED <<extractVars, encodeVars, predictVars, serviceVars, splitVars,
                   entropyVars, trainVars>>

NextShard == \E w \in 1..num_workers : WorkerIter(w) \/ WorkerRead(w)

SpecShard == InitShard /\ [][NextShard]_vars

\* the number of times file f has been read, by any worker
TimesRead(f) ==
    Cardinality({<<w, k>> \in (1..num_workers) \X (1..Len(files)) :
                    k <= Len(file_reads[w]) /\ file_reads[w][k] = f})

AllWorkersDone == \A w \in 1..num_workers : worker_pc[w] = "done"

\* C29: the contiguous ranges of the workers partition the file list: no
\* file is read twice, a worker reads only files of its own range, the
\* ranges taken so far are disjoint and in the order of the workers, and
\* when all workers are done every file has been read exactly once; with
\* more workers than files only the last worker reads.
C29_RangesPartitionFiles ==
    pc = "iterating" =>
        /\ \A k \in 1..Len(files) : TimesRead(files[k]) <= 1
        /\ \A w \in 1..num_workers :
              worker_pc[w] # "iter" =>
                 /\ \E a \in 0..Len(files) :
                       worker_files[w] = SubSeq(files, a + 1, a + Len(worker_files[w]))
                 /\ \A k \in 1..Len(file_reads[w]) :
                       file_reads[w][k] = worker_files[w][k]
        /\ (\A w \in 1..num_workers : worker_pc[w] # "iter") =>
              \A k \in 1..Len(files) :
                 Cardinality({w \in 1..num_workers :
                                 \E j \in 1..Len(worker_files[w]) :
                                    worker_files[w][j] = files[k]}) = 1
        /\ AllWorkersDone =>
              /\ \A k \in 1..Len(files) : TimesRead(files[k]) = 1
              /\ num_workers > Len(files) =>
                    \A w \in 1..num_workers :
                       file_reads[w] = IF w = num_workers THEN files ELSE <<>>

\* three workers done on two files, all read by the last worker
C29_Witness ==
    /\ pc = "iterating"
    /\ AllWorkersDone
    /\ num_workers = 3
    /\ Len(files) = 2
    /\ file_reads[3] = files

(***************************************************************************)
(* The order of the severities.                                            *)
(***************************************************************************)
\* low < medium < high < critical
Rank(severity) ==
    CASE severity = "low" -> 0
      [] severity = "medium" -> 1
      [] severity = "high" -> 2
      [] severity = "critical" -> 3

\* the severities of the group of a category
GroupTiers(vuln_type) ==
    IF vuln_type \in FirstGroup THEN {"critical", "high", "medium"}
    ELSE IF vuln_type \in SecondGroup THEN {"high", "medium", "low"}
    ELSE {"medium", "low"}

\* every confidence, in thousandths
Confidences == 0..1000

\* C30: within a category the severity is monotone in the confidence: the
\* severity of a finding is at most the severity the category has at any
\* confidence not below the finding's, and at least the severity at any
\* confidence not above it (low < medium < high < critical); a reported
\* finding has a severity of its category group's tiers.
C30_SeverityMonotone ==
    result # None =>
        \A j \in 1..Len(Findings) :
            LET t == Findings[j].vuln_type
                c == Findings[j].confidence
                s == Findings[j].severity
            IN /\ c > 300
               /\ s \in GroupTiers(t)
               /\ \A c2 \in Confidences :
                     /\ c <= c2 => Rank(s) <= Rank(GetSeverity(t, c2))
                     /\ c2 <= c => Rank(GetSeverity(t, c2)) <= Rank(s)

\* a finding of the second group in its middle tier, next to findings of
\* the first group
C30_Witness ==
    /\ result # None
    /\ \E j, k \in 1..Len(Findings) :
          /\ Findings[j].vuln_type \in SecondGroup
          /\ Findings[j].severity = "medium"
          /\ Findings[k].vuln_type \in FirstGroup
          /\ Findings[k].confidence < Findings[j].confidence
====
